---- MODULE Spec2Model ----
(***************************************************************************)
(* A model of openai-zod-functions: argument parsing (utils/parse.ts),     *)
(* handler dispatch (handler.ts) and the reducer fold (reducer.ts).        *)
(*                                                                         *)
(* JSON text is modelled at token level: a text is a sequence of tokens,   *)
(* JSON.stringify produces it and JSON.parse is a recursive-descent        *)
(* parser over it.  Strings of the program (messages) are sequences of     *)
(* string parts; template-literal concatenation is \o.                     *)
(***************************************************************************)
EXTENDS Integers, Sequences, FiniteSets, TLC

----------------------------------------------------------------------------
(* Bounds of the model *)

\* longest list of tool calls in one batch
MaxCalls == 2

\* largest number that occurs in argument values
MaxNum == 2

----------------------------------------------------------------------------
(* JSON values *)

JNum(n) == [t |-> "num", n |-> n]
JStr(s) == [t |-> "str", s |-> s]
JNull == [t |-> "null"]
JObj(m) == [t |-> "obj", m |-> m]

\* the strings that occur as property names or string values
Strings == {"param1", "param2", "incrementBy", "extra", "value1"}

\* property names in the order JSON.stringify writes them (insertion order)
KeyOrder == <<"param1", "param2", "incrementBy", "extra">>

\* the token of a string literal
Quote(s) ==
  CASE s = "param1" -> "'param1'"
    [] s = "param2" -> "'param2'"
    [] s = "incrementBy" -> "'incrementBy'"
    [] s = "extra" -> "'extra'"
    [] s = "value1" -> "'value1'"

\* the token of a number literal
Digits == <<"0", "1", "2", "3", "4", "5", "6", "7", "8", "9">>

NumText(n) == Digits[n + 1]

IsStrTok(tok) == \E s \in Strings : Quote(s) = tok

StrOf(tok) == CHOOSE s \in Strings : Quote(s) = tok

IsNumTok(tok) == \E i \in 1..Len(Digits) : Digits[i] = tok

NumOf(tok) == (CHOOSE i \in 1..Len(Digits) : Digits[i] = tok) - 1

\* the keys of an object as a sequence in KeyOrder order
RECURSIVE KeysFrom(_, _)
KeysFrom(m, i) ==
  IF i > Len(KeyOrder) THEN <<>>
  ELSE IF KeyOrder[i] \in DOMAIN m THEN <<KeyOrder[i]>> \o KeysFrom(m, i + 1)
  ELSE KeysFrom(m, i + 1)

\* JSON.stringify
RECURSIVE Stringify(_)
RECURSIVE StringifyMembers(_, _, _)
StringifyMembers(m, ks, i) ==
  IF i > Len(ks) THEN <<>>
  ELSE (IF i > 1 THEN <<",">> ELSE <<>>)
       \o <<Quote(ks[i]), ":">> \o Stringify(m[ks[i]])
       \o StringifyMembers(m, ks, i + 1)

Stringify(v) ==
  CASE v.t = "num" -> <<NumText(v.n)>>
    [] v.t = "str" -> <<Quote(v.s)>>
    [] v.t = "null" -> <<"null">>
    [] v.t = "obj" -> <<"{">> \o StringifyMembers(v.m, KeysFrom(v.m, 1), 1) \o <<"}">>

\* JSON.parse: a recursive-descent parser.  ParseValue and ParseMembers
\* return [ok, v, next]: the value read and the position after it.
ParseFail == [ok |-> FALSE, v |-> JNull, next |-> 0]

RECURSIVE ParseValue(_, _)
RECURSIVE ParseMembers(_, _, _)
ParseMembers(toks, pos, m) ==
  \* at pos: 'key' : value, then "," (more members) or "}"
  IF pos + 1 > Len(toks) \/ ~IsStrTok(toks[pos]) \/ toks[pos + 1] # ":" THEN ParseFail
  ELSE LET r == ParseValue(toks, pos + 2) IN
       IF ~r.ok \/ r.next > Len(toks) THEN ParseFail
       ELSE LET k == StrOf(toks[pos])
                \* a repeated key overwrites the earlier member
                m2 == [x \in DOMAIN m \cup {k} |-> IF x = k THEN r.v ELSE m[x]]
            IN  CASE toks[r.next] = "}" -> [ok |-> TRUE, v |-> JObj(m2), next |-> r.next + 1]
                  [] toks[r.next] = "," -> ParseMembers(toks, r.next + 1, m2)
                  [] OTHER -> ParseFail

ParseValue(toks, pos) ==
  IF pos > Len(toks) THEN ParseFail
  ELSE LET tok == toks[pos] IN
       CASE IsNumTok(tok) -> [ok |-> TRUE, v |-> JNum(NumOf(tok)), next |-> pos + 1]
         [] IsStrTok(tok) -> [ok |-> TRUE, v |-> JStr(StrOf(tok)), next |-> pos + 1]
         [] tok = "null" -> [ok |-> TRUE, v |-> JNull, next |-> pos + 1]
         [] tok = "{" ->
              IF pos + 1 <= Len(toks) /\ toks[pos + 1] = "}"
              THEN [ok |-> TRUE, v |-> JObj(<<>>), next |-> pos + 2]
              ELSE ParseMembers(toks, pos + 1, <<>>)
         [] OTHER -> ParseFail

\* JSON.parse(text): [ok |-> TRUE, v] or a SyntaxError
JsonParse(toks) ==
  LET r == ParseValue(toks, 1) IN
  IF r.ok /\ r.next = Len(toks) + 1 THEN [ok |-> TRUE, v |-> r.v]
  ELSE [ok |-> FALSE, v |-> JNull]

----------------------------------------------------------------------------
(* Schemas: z.object({...}) with required z.string() / z.number() members *)

ZObject(shape) == [shape |-> shape]

\* z.object({ param1: z.string(), param2: z.number() })
testSchema == ZObject([k \in {"param1", "param2"} |->
                         IF k = "param1" THEN "string" ELSE "number"])

\* z.object({ incrementBy: z.number() })
incrementSchema == ZObject([k \in {"incrementBy"} |-> "number"])

\* the type name zod reports for a value
ZodTypeOf(v) ==
  CASE v.t = "num" -> "number"
    [] v.t = "str" -> "string"
    [] v.t = "null" -> "null"
    [] v.t = "obj" -> "object"

\* the issues of an object's members, in declaration order
RECURSIVE MemberIssues(_, _, _, _)
MemberIssues(shape, m, ks, i) ==
  IF i > Len(ks) THEN <<>>
  ELSE LET k == ks[i] IN
       (IF k \notin DOMAIN m
        THEN <<[path |-> <<k>>, reason |-> <<"Required">>]>>
        ELSE IF ZodTypeOf(m[k]) # shape[k]
        THEN <<[path |-> <<k>>,
                reason |-> <<"Expected ", shape[k], ", received ", ZodTypeOf(m[k])>>]>>
        ELSE <<>>)
       \o MemberIssues(shape, m, ks, i + 1)

\* schema.safeParse(value): {success: true, data} | {success: false, error}.
\* An object schema strips the members it does not declare.
SafeParse(schema, v) ==
  IF v.t # "obj"
  THEN [success |-> FALSE,
        error |-> [issues |-> <<[path |-> <<>>,
                                 reason |-> <<"Expected object, received ", ZodTypeOf(v)>>]>>]]
  ELSE LET issues == MemberIssues(schema.shape, v.m, KeysFrom(schema.shape, 1), 1) IN
       IF issues = <<>>
       THEN [success |-> TRUE, data |-> JObj([k \in DOMAIN schema.shape |-> v.m[k]])]
       ELSE [success |-> FALSE, error |-> [issues |-> issues]]

\* a message of the first issue alone
FirstIssueText(issues, i) ==
  IF i > Len(issues) THEN <<>>
  ELSE issues[i].reason
       \o (IF issues[i].path = <<>> THEN <<>> ELSE <<" at ", Quote(issues[i].path[1])>>)

\* fromZodError(zodError).message: every issue, joined by "; "
RECURSIVE IssueTexts(_, _)
IssueTexts(issues, i) ==
  IF i > Len(issues) THEN <<>>
  ELSE (IF i > 1 THEN <<"; ">> ELSE <<>>)
       \o issues[i].reason
       \o (IF issues[i].path = <<>> THEN <<>> ELSE <<" at ", Quote(issues[i].path[1])>>)
       \o IssueTexts(issues, i + 1)

FromZodErrorMessage(zodError) == <<"Validation error: ">> \o IssueTexts(zodError.issues, 1)

----------------------------------------------------------------------------
(* Errors *)

\* no value (undefined)
Undefined == "undefined"

HttpError(kind, message, status, source) ==
  [kind |-> kind, message |-> message, status |-> status, source |-> source]

\* InvalidFunctionName tagged as coming from OpenAI
InvalidFunctionNameFromOpenAI(name) ==
  HttpError("InvalidFunctionName", <<"Function not found: ", name>>, 500, "OpenAI")

InvalidFunctionName(name) ==
  HttpError("InvalidFunctionName", <<"Function not found: ", name>>, 500, Undefined)

\* the message of an InvalidFunctionArguments error
InvalidArgumentsMessage(name, zodError) ==
  <<"Invalid ", name, " function args: ">> \o FromZodErrorMessage(zodError)

\* what the constructor of InvalidFunctionArguments passes to logger.error
InvalidArgumentsLog(name, args, zodError) ==
  [level |-> "error",
   text |-> InvalidArgumentsMessage(name, zodError) \o <<" (">> \o args \o <<")">>]

\* InvalidFunctionArguments without the source
InvalidFunctionArgumentsUntagged(name, args, zodError) ==
  HttpError("InvalidFunctionArguments", InvalidArgumentsMessage(name, zodError), 500, Undefined)

InvalidFunctionArguments(name, args, zodError) ==
  HttpError("InvalidFunctionArguments", InvalidArgumentsMessage(name, zodError), 500, "OpenAI")

\* the SyntaxError JSON.parse throws; it is no HttpError and has no status
JsonSyntaxError == [kind |-> "SyntaxError", message |-> <<"Unexpected token in JSON">>]

----------------------------------------------------------------------------
(* utils/parse.ts *)

Returned(v, logs) == [ok |-> TRUE, value |-> v, logs |-> logs]
Thrown(e, logs) == [ok |-> FALSE, error |-> e, logs |-> logs]

\* the indices of the entries of a list that have the name
Matches(name, list) == {i \in 1..Len(list) : list[i].name = name}

\* the last entry that satisfies the predicate
FindLastByName(name, list) ==
  LET i == CHOOSE j \in Matches(name, list) : \A l \in Matches(name, list) : j >= l
  IN  list[i]

\* Array.prototype.find: the first entry that satisfies the predicate
FindByName(name, list) ==
  LET i == CHOOSE j \in Matches(name, list) : \A l \in Matches(name, list) : j <= l
  IN  list[i]

\* findFunction without its check of the result of find
findFunctionUnchecked(name, functions) ==
  IF Matches(name, functions) = {}
  THEN Returned(Undefined, <<>>)
  ELSE Returned(FindByName(name, functions), <<>>)

findFunction(name, functions) ==
  IF Matches(name, functions) = {}
  THEN Thrown(InvalidFunctionName(name), <<>>)
  ELSE Returned(FindByName(name, functions), <<>>)

\* parseArguments returning the decoded input instead of result.data
parseArgumentsRaw(name, args, schema) ==
  LET parameters == JsonParse(args) IN
  IF ~parameters.ok THEN Thrown(JsonSyntaxError, <<>>)
  ELSE LET result == SafeParse(schema, parameters.v) IN
       IF ~result.success
       THEN Thrown(InvalidFunctionArguments(name, args, result.error),
                   <<InvalidArgumentsLog(name, args, result.error)>>)
       ELSE Returned(parameters.v, <<>>)

\* parseArguments logging a validation failure and going on without a value
parseArgumentsLogOnly(name, args, schema) ==
  LET parameters == JsonParse(args) IN
  IF ~parameters.ok THEN Thrown(JsonSyntaxError, <<>>)
  ELSE LET result == SafeParse(schema, parameters.v) IN
       IF ~result.success
       THEN Returned(JNull, <<InvalidArgumentsLog(name, args, result.error)>>)
       ELSE Returned(result.data, <<>>)

parseArguments(name, args, schema) ==
  LET parameters == JsonParse(args) IN
  IF ~parameters.ok THEN Thrown(JsonSyntaxError, <<>>)
  ELSE LET result == SafeParse(schema, parameters.v) IN
       IF ~result.success
       THEN Thrown(InvalidFunctionArguments(name, args, result.error),
                   <<InvalidArgumentsLog(name, args, result.error)>>)
       ELSE Returned(result.data, <<>>)

----------------------------------------------------------------------------
(* handler.ts *)

findHandler(name, handlers) ==
  IF Matches(name, handlers) = {}
  THEN Thrown(InvalidFunctionName(name), <<>>)
  ELSE Returned(FindByName(name, handlers), <<>>)

\* what a handler throws or rejects with: an Error object or any other value
ErrorCause(message) == [isError |-> TRUE, message |-> message]
NonErrorCause(thrown) == [isError |-> FALSE, thrown |-> thrown]

\* FunctionHandlerError with a message that leaves the function name out
FunctionHandlerErrorUnnamed(name, err) ==
  HttpError("FunctionHandlerError",
            <<"Error calling function: ",
              IF err.isError THEN err.message ELSE "Unknown error">>,
            500, Undefined)

FunctionHandlerError(name, err) ==
  HttpError("FunctionHandlerError",
            <<"Error calling function ", name, ": ",
              IF err.isError THEN err.message ELSE "Unknown error">>,
            500, Undefined)

\* promises
Pending == [state |-> "pending"]
Fulfilled(v) == [state |-> "fulfilled", value |-> v]
Rejected(e) == [state |-> "rejected", error |-> e]

\* what a call of handler.handler(parameters) does before it returns:
\* it returns a promise, or (not being an async function) it throws
ReturnsPromise == [how |-> "promise"]
Throws(cause) == [how |-> "threw", cause |-> cause]

Info(text) == [level |-> "info", text |-> text]

\* handleSingleToolCall invoking the handler with the decoded arguments
\* whether or not the schema accepts them
StartSingleToolCallUnvalidated(handlers, toolCall, i, sync) ==
  LET name == toolCall.name
      handler == findHandler(name, handlers)
  IN  IF ~handler.ok
      THEN [promise |-> Rejected(handler.error), invoked |-> <<>>, logs |-> <<>>,
            outcome |-> [how |-> "none"]]
      ELSE LET decoded == JsonParse(toolCall.arguments)
               inv == [call |-> i, handler |-> handler.value.handler,
                       parameters |-> decoded.v]
               logs == <<Info(<<"Calling function: ", name>>)>>
           IN  IF ~decoded.ok
               THEN [promise |-> Rejected(JsonSyntaxError), invoked |-> <<>>,
                     logs |-> <<>>, outcome |-> [how |-> "none"]]
               ELSE IF sync.how = "threw"
               THEN [promise |-> Rejected(FunctionHandlerError(name, sync.cause)),
                     invoked |-> <<inv>>, logs |-> logs, outcome |-> sync]
               ELSE [promise |-> Pending, invoked |-> <<inv>>, logs |-> logs,
                     outcome |-> [how |-> "running"]]

\* handleSingleToolCall up to its await: the promise of the call, the handler
\* invocation it made (at most one) and what it logged.  sync is what the
\* handler does when invoked.
\* handleSingleToolCall calling the handler a second time when it throws
StartSingleToolCallRetrying(handlers, toolCall, i, sync) ==
  LET name == toolCall.name
      handler == findHandler(name, handlers)
  IN  IF ~handler.ok
      THEN [promise |-> Rejected(handler.error), invoked |-> <<>>, logs |-> <<>>,
            outcome |-> [how |-> "none"]]
      ELSE LET parameters == parseArguments(toolCall.name, toolCall.arguments,
                                            handler.value.schema)
           IN  IF ~parameters.ok
               THEN [promise |-> Rejected(parameters.error), invoked |-> <<>>,
                     logs |-> parameters.logs, outcome |-> [how |-> "none"]]
               ELSE LET inv == [call |-> i, handler |-> handler.value.handler,
                                parameters |-> parameters.value]
                        logs == <<Info(<<"Calling function: ", name>>)>>
                    IN  IF sync.how = "threw"
                        THEN [promise |-> Rejected(FunctionHandlerError(name, sync.cause)),
                              invoked |-> <<inv, inv>>, logs |-> logs \o logs,
                              outcome |-> sync]
                        ELSE [promise |-> Pending, invoked |-> <<inv>>, logs |-> logs,
                              outcome |-> [how |-> "running"]]

StartSingleToolCall(handlers, toolCall, i, sync) ==
  LET name == toolCall.name
      handler == findHandler(name, handlers)
  IN  IF ~handler.ok
      THEN [promise |-> Rejected(handler.error), invoked |-> <<>>, logs |-> <<>>,
            outcome |-> [how |-> "none"]]
      ELSE LET parameters == parseArguments(toolCall.name, toolCall.arguments,
                                            handler.value.schema)
           IN  IF ~parameters.ok
               THEN [promise |-> Rejected(parameters.error), invoked |-> <<>>,
                     logs |-> parameters.logs, outcome |-> [how |-> "none"]]
               ELSE LET inv == [call |-> i, handler |-> handler.value.handler,
                                parameters |-> parameters.value]
                        logs == <<Info(<<"Calling function: ", name>>)>>
                    IN  IF sync.how = "threw"
                        THEN [promise |-> Rejected(FunctionHandlerError(name, sync.cause)),
                              invoked |-> <<inv>>, logs |-> logs, outcome |-> sync]
                        ELSE [promise |-> Pending, invoked |-> <<inv>>, logs |-> logs,
                              outcome |-> [how |-> "running"]]

\* a loop that awaits each call before it starts the next: the calls after
\* the first one that failed at once are not started
StartUntilFailure(handlers, list, sync) ==
  LET each == [i \in 1..Len(list) |-> StartSingleToolCall(handlers, list[i], i, sync[i])]
  IN  [i \in 1..Len(list) |->
         IF \E k \in 1..(i - 1) : each[k].promise.state = "rejected"
         THEN [promise |-> Pending, invoked |-> <<>>, logs |-> <<>>,
               outcome |-> [how |-> "none"]]
         ELSE each[i]]

\* toolCalls.map((toolCall) => handleSingleToolCall(handlers, toolCall)):
\* every call is started, in order, whatever the calls before it did
StartAll(handlers, list, sync) ==
  [i \in 1..Len(list) |-> StartSingleToolCall(handlers, list[i], i, sync[i])]

\* toolCalls.map on undefined: the guard for undefined left out
ThrowsOnUndefined ==
  Rejected([kind |-> "TypeError",
            message |-> <<"Cannot read properties of undefined (reading 'map')">>])

\* what handleToolCalls returns when toolCalls is undefined
ReturnsEmpty == Fulfilled(<<>>)

\* Promise.all over n promises, before any of them is observed
PromiseAll(n) ==
  [state |-> IF n = 0 THEN "fulfilled" ELSE "pending",
   values |-> [i \in 1..n |-> Undefined],
   remaining |-> n]

\* storing the values in the order the promises are fulfilled
StoreValueInArrivalOrder(values, i, v) ==
  LET free == {j \in DOMAIN values : values[j] = Undefined}
      next == CHOOSE j \in free : \A k \in free : j <= k
  IN  [values EXCEPT ![next] = v]

\* Promise.all stores the value of the i-th promise at index i
StoreValue(values, i, v) == [values EXCEPT ![i] = v]

\* a join that is fulfilled by the first fulfilled promise (Promise.any)
PromiseAnyReact(all, i, promise) ==
  IF promise.state = "fulfilled"
  THEN LET values == StoreValue(all.values, i, promise.value)
           remaining == all.remaining - 1
       IN  IF all.state = "pending"
           THEN [state |-> "fulfilled", values |-> values, remaining |-> remaining]
           ELSE [all EXCEPT !.values = values, !.remaining = remaining]
  ELSE IF all.state = "pending"
       THEN [state |-> "rejected", values |-> all.values, remaining |-> all.remaining,
             error |-> promise.error]
       ELSE all

\* a join that collects rejections as missing values (Promise.allSettled)
PromiseAllSettledReact(all, i, promise) ==
  LET remaining == all.remaining - 1 IN
  IF all.state = "pending" /\ remaining = 0
  THEN [state |-> "fulfilled", values |-> all.values, remaining |-> remaining]
  ELSE [all EXCEPT !.remaining = remaining]

\* a join whose error is that of the rejection it reacted to last
PromiseAllReactLastWins(all, i, promise) ==
  IF promise.state = "fulfilled"
  THEN LET values == StoreValue(all.values, i, promise.value)
           remaining == all.remaining - 1
       IN  IF all.state = "pending" /\ remaining = 0
           THEN [state |-> "fulfilled", values |-> values, remaining |-> remaining]
           ELSE [all EXCEPT !.values = values, !.remaining = remaining]
  ELSE [state |-> "rejected", values |-> all.values, remaining |-> all.remaining,
        error |-> promise.error]

\* the reaction of Promise.all to the settled i-th promise
PromiseAllReact(all, i, promise) ==
  IF promise.state = "fulfilled"
  THEN LET values == StoreValue(all.values, i, promise.value)
           remaining == all.remaining - 1
       IN  IF all.state = "pending" /\ remaining = 0
           THEN [state |-> "fulfilled", values |-> values, remaining |-> remaining]
           ELSE [all EXCEPT !.values = values, !.remaining = remaining]
  ELSE IF all.state = "pending"
       THEN [state |-> "rejected", values |-> all.values, remaining |-> all.remaining,
             error |-> promise.error]
       ELSE all

\* the concatenation of f[1], ..., f[n]
RECURSIVE Concat(_, _, _)
Concat(f, i, n) == IF i > n THEN <<>> ELSE f[i] \o Concat(f, i + 1, n)

----------------------------------------------------------------------------
(* reducer.ts *)

\* FunctionReducerError with a message that leaves the function name out
FunctionReducerErrorUnnamed(name, err) ==
  HttpError("FunctionReducerError",
            <<"Error calling reducer: ",
              IF err.isError THEN err.message ELSE "Unknown error">>,
            500, Undefined)

FunctionReducerError(name, err) ==
  HttpError("FunctionReducerError",
            <<"Error calling reducer ", name, ": ",
              IF err.isError THEN err.message ELSE "Unknown error">>,
            500, Undefined)

\* the reducer functions: testReducer adds incrementBy for "increment" and
\* returns the state for any other name; affineReducer also handles
\* "testFunction", doubling the state and adding param2
ApplyReducer(reducer, prevState, functionName, args) ==
  CASE functionName = "increment" -> prevState + args.m["incrementBy"].n
    [] functionName = "testFunction" /\ reducer = "affineReducer" ->
         2 * prevState + args.m["param2"].n
    [] OTHER -> prevState

\* the callback of forEach applied to one tool call with the state st:
\* [ok |-> TRUE, state, ...] or [ok |-> FALSE, error, ...], the reducer
\* invocation made (at most one) and what was logged.  sync is what the
\* reducer does when invoked: it returns, or it throws.
ReduceCallFrom(functionReducer, st, toolCall, i, sync) ==
  LET name == toolCall.name
      func == findFunction(name, functionReducer.functions)
  IN  IF ~func.ok
      THEN [ok |-> FALSE, error |-> func.error, reduced |-> <<>>, logs |-> <<>>]
      ELSE LET parameters == parseArguments(name, toolCall.arguments, func.value.schema)
           IN  IF ~parameters.ok
               THEN [ok |-> FALSE, error |-> parameters.error, reduced |-> <<>>,
                     logs |-> parameters.logs]
               ELSE LET new == ApplyReducer(functionReducer.reducer, st, name,
                                            parameters.value)
                        \* the invocation and what came of it
                        call == [call |-> i, state |-> st, name |-> name,
                                 args |-> parameters.value,
                                 outcome |-> IF sync.how = "threw" THEN sync
                                             ELSE [how |-> "returned", state |-> new]]
                        calling == Info(<<"Calling reducer: ", name>>)
                    IN  IF sync.how = "threw"
                        THEN [ok |-> FALSE, error |-> FunctionReducerError(name, sync.cause),
                              reduced |-> <<call>>, logs |-> <<calling>>]
                        ELSE [ok |-> TRUE, state |-> new, reduced |-> <<call>>,
                              logs |-> <<calling, Info(<<"New state: ", new>>)>>]

\* the callback catching its own failure, so that forEach goes on
ReduceCallSwallowing(functionReducer, prev, st, toolCall, i, sync) ==
  LET r == ReduceCallFrom(functionReducer, st, toolCall, i, sync) IN
  IF r.ok THEN r
  ELSE [ok |-> TRUE, state |-> st, reduced |-> r.reduced, logs |-> r.logs]

\* the callback not assigning what the reducer returned to state
ReduceCallDetached(functionReducer, prev, st, toolCall, i, sync) ==
  LET r == ReduceCallFrom(functionReducer, st, toolCall, i, sync) IN
  IF r.ok THEN [r EXCEPT !.state = st] ELSE r

\* the callback giving the reducer the decoded arguments, whether or not the
\* schema accepts them
ReduceCallUnvalidated(functionReducer, prev, st, toolCall, i, sync) ==
  LET name == toolCall.name
      func == findFunction(name, functionReducer.functions)
      decoded == JsonParse(toolCall.arguments)
  IN  IF ~func.ok
      THEN [ok |-> FALSE, error |-> func.error, reduced |-> <<>>, logs |-> <<>>]
      ELSE IF ~decoded.ok
      THEN [ok |-> FALSE, error |-> JsonSyntaxError, reduced |-> <<>>, logs |-> <<>>]
      ELSE [ok |-> TRUE, state |-> st,
            reduced |-> <<[call |-> i, state |-> st, name |-> name, args |-> decoded.v,
                           outcome |-> [how |-> "returned", state |-> st]]>>,
            logs |-> <<Info(<<"Calling reducer: ", name>>)>>]

\* the callback giving the reducer the state reduceToolCalls was called with
ReduceCallStale(functionReducer, prev, st, toolCall, i, sync) ==
  ReduceCallFrom(functionReducer, prev, toolCall, i, sync)

\* the callback of forEach: the reducer is given the current state
ReduceCall(functionReducer, prev, st, toolCall, i, sync) ==
  ReduceCallFrom(functionReducer, st, toolCall, i, sync)

\* toolCalls.forEach on undefined: the guard for undefined left out
ThrowsOnUndefinedCalls(prev) ==
  Rejected([kind |-> "TypeError",
            message |-> <<"Cannot read properties of undefined (reading 'forEach')">>])

\* what reduceToolCalls returns when toolCalls is undefined
ReturnsPrevState(prev) == Fulfilled(prev)

----------------------------------------------------------------------------
(* function.ts *)

\* the members a schema declares, in declaration order; none when all are
\* optional or there is none (zod-to-json-schema then leaves required out)
RequiredOf(schema) ==
  LET ks == KeysFrom(schema.shape, 1) IN
  [defined |-> ks # <<>>, list |-> ks]

\* zodToJsonSchema(schema) of an object schema
ZodToJsonSchema(schema) ==
  [schema |-> "http://json-schema.org/draft-07/schema#",
   type |-> "object",
   properties |-> [k \in DOMAIN schema.shape |-> [type |-> schema.shape[k]]],
   required |-> RequiredOf(schema),
   additionalProperties |-> FALSE]

\* toJsonSchema passing the whole JSON schema on as the parameters
toJsonSchemaWhole(functionDef) ==
  [name |-> functionDef.name,
   description |-> functionDef.description,
   parameters |-> ZodToJsonSchema(functionDef.schema)]

toJsonSchema(functionDef) ==
  LET jsonSchema == ZodToJsonSchema(functionDef.schema) IN
  [name |-> functionDef.name,
   description |-> functionDef.description,
   parameters |-> [type |-> jsonSchema.type,
                   properties |-> jsonSchema.properties,
                   required |-> jsonSchema.required]]

toTool(functionDef) == [type |-> "function", function |-> toJsonSchema(functionDef)]

----------------------------------------------------------------------------
(* assertSingleToolCall *)

\* new Error(message)
Error(message) == [kind |-> "Error", message |-> message]

\* a text inside a JSON string literal: its quotes are escaped
RECURSIVE Escaped(_)
Escaped(text) ==
  IF text = <<>> THEN <<>>
  ELSE (IF IsStrTok(Head(text)) THEN <<"\\'", StrOf(Head(text)), "\\'">>
        ELSE <<Head(text)>>)
       \o Escaped(Tail(text))

\* JSON.stringify(tool_calls, null, 2), without the white space
RECURSIVE StringifyToolCallsFrom(_, _)
StringifyToolCallsFrom(list, i) ==
  IF i > Len(list) THEN <<>>
  ELSE (IF i > 1 THEN <<",">> ELSE <<>>)
       \o <<"{", "'function'", ":", "{", "'name'", ":", "'", list[i].name, "'", ",",
            "'arguments'", ":", "'">>
       \o Escaped(list[i].arguments)
       \o <<"'", "}", "}">>
       \o StringifyToolCallsFrom(list, i + 1)

StringifyToolCalls(list) == <<"[">> \o StringifyToolCallsFrom(list, 1) \o <<"]">>

\* `Unexpected (${label})` or "Unexpected": undefined and "" are falsy
Prefix(label) ==
  IF label # Undefined /\ label # "" THEN <<"Unexpected (", label, ")">>
  ELSE <<"Unexpected">>

\* assertSingleToolCall letting a message without tool calls through
assertSingleToolCallAtMostOne(completion, label) ==
  LET prefix == Prefix(label)
      choices == completion.choices
  IN  IF Len(choices) # 1
      THEN Thrown(Error(prefix \o <<": got ", NumText(Len(choices)), " choices">>), <<>>)
      ELSE LET tool_calls == choices[1].message.tool_calls IN
           IF ~tool_calls.defined
           THEN Thrown(Error(prefix \o <<": no tool_calls for ", label>>), <<>>)
           ELSE IF Len(tool_calls.list) > 1
           THEN Thrown(Error(prefix \o <<": got ", NumText(Len(tool_calls.list)),
                                         " tool_calls">>),
                       <<[level |-> "error",
                          text |-> prefix \o <<": Multiple tool calls for ", label, ": ">>
                                   \o StringifyToolCalls(tool_calls.list)]>>)
           ELSE Returned(Undefined, <<>>)

assertSingleToolCall(completion, label) ==
  LET prefix == Prefix(label)
      choices == completion.choices
  IN  IF Len(choices) # 1
      THEN Thrown(Error(prefix \o <<": got ", NumText(Len(choices)), " choices">>), <<>>)
      ELSE LET tool_calls == choices[1].message.tool_calls IN
           IF ~tool_calls.defined
           THEN Thrown(Error(prefix \o <<": no tool_calls for ", label>>), <<>>)
           ELSE IF Len(tool_calls.list) # 1
           THEN Thrown(Error(prefix \o <<": got ", NumText(Len(tool_calls.list)),
                                         " tool_calls">>),
                       <<[level |-> "error",
                          text |-> prefix \o <<": Multiple tool calls for ", label, ": ">>
                                   \o StringifyToolCalls(tool_calls.list)]>>)
           ELSE Returned(Undefined, <<>>)

----------------------------------------------------------------------------
(* The inputs the functions are applied to *)

FnNames == {"testFunction", "testFunction2", "nonExistentFunction"}

ArgKeys == {"param1", "param2", "extra"}

ArgScalars == {JNum(n) : n \in 1..MaxNum} \cup {JStr("value1")}

ArgObjects == {JObj(m) : m \in UNION {[K -> ArgScalars] : K \in SUBSET ArgKeys}}

ArgValues == ArgObjects \cup ArgScalars \cup {JNull}

Prefixes(t) == {SubSeq(t, 1, k) : k \in 0..Len(t)}

Suffixes(t) == {SubSeq(t, k, Len(t)) : k \in 1..Len(t)}

\* argument texts: what JSON.stringify writes, and truncated texts
ArgTexts == UNION {Prefixes(Stringify(v)) \cup Suffixes(Stringify(v)) : v \in ArgValues}

\* object schemas over param1, param2
Schemas == {ZObject(sh) : sh \in UNION {[K -> {"string", "number"}] :
                                         K \in (SUBSET {"param1", "param2"}) \ {{}}}}

\* ZodFunctionDef
FunctionDefs ==
  [name : {"testFunction", "testFunction2"},
   description : {"A test function", "A second test function"},
   schema : {testSchema, incrementSchema}]

\* ZodFunctionHandler: a definition and its handler function
HandlerIds == {"testHandler", "badHandler"}

FunctionHandlers ==
  [name : {"testFunction", "testFunction2"},
   description : {"A test function"},
   schema : {testSchema, incrementSchema},
   handler : HandlerIds]

\* the lists of at most n entries of a set
ListsOf(S, n) == UNION {[1..k -> S] : k \in 0..n}

\* longest list of definitions or handlers given to a lookup
MaxDefs == 2

PureCalls ==
  {[fn |-> "parseArguments", name |-> n, args |-> a, schema |-> sc] :
     n \in {"testFunction"}, a \in ArgTexts, sc \in Schemas}
  \cup {[fn |-> "findFunction", name |-> n, list |-> l] :
          n \in FnNames, l \in ListsOf(FunctionDefs, MaxDefs)}
  \cup {[fn |-> "findHandler", name |-> n, list |-> l] :
          n \in FnNames, l \in ListsOf(FunctionHandlers, MaxDefs)}

----------------------------------------------------------------------------
(* The inputs of handleToolCalls *)

\* createFunctionHandler({name, description, schema, handler})
testFunction ==
  [name |-> "testFunction", description |-> "A test function",
   schema |-> testSchema, handler |-> "testHandler"]

testFunction2 ==
  [name |-> "testFunction2", description |-> "A second test function",
   schema |-> testSchema, handler |-> "testHandler2"]

\* a second handler of the name testFunction
shadowedFunction ==
  [name |-> "testFunction", description |-> "A test function",
   schema |-> incrementSchema, handler |-> "badHandler"]

HandlerLists ==
  {<<>>, <<testFunction>>, <<testFunction, testFunction2>>,
   <<testFunction, shadowedFunction>>}

\* argument texts of a tool call: accepted by testSchema (with a member the
\* schema does not declare), rejected by it, and not JSON
validArgs == Stringify(JObj([k \in {"param1", "param2", "extra"} |->
                               IF k = "param1" THEN JStr("value1") ELSE JNum(1)]))

invalidArgs == Stringify(JObj([k \in {"param1"} |-> JNum(1)]))

truncatedArgs == SubSeq(validArgs, 1, 4)

ToolCalls == [name : FnNames, arguments : {validArgs, invalidArgs, truncatedArgs}]

\* toolCalls: ChatCompletionMessageToolCall[] | undefined
NoToolCalls == [defined |-> FALSE, list |-> <<>>]

ToolCallLists ==
  {NoToolCalls} \cup {[defined |-> TRUE, list |-> l] : l \in ListsOf(ToolCalls, MaxCalls)}

\* what handlers return and what they fail with
Outputs == {"output1", "output2"}

Causes == {ErrorCause("handler failed"), NonErrorCause("boom")}

SyncChoices == {ReturnsPromise} \cup {Throws(c) : c \in Causes}

----------------------------------------------------------------------------
(* The inputs of assertSingleToolCall and of the error constructors *)

\* most choices of a completion
MaxChoices == 2

\* tool_calls of a message: undefined, or a list of equal tool calls
MessageToolCalls ==
  {NoToolCalls}
  \cup {[defined |-> TRUE, list |-> l] :
          l \in ListsOf({[name |-> "testFunction", arguments |-> validArgs]}, MaxCalls)}

Choices == {[message |-> [tool_calls |-> tc]] : tc \in MessageToolCalls}

Completions == {[choices |-> cs] : cs \in ListsOf(Choices, MaxChoices)}

\* label?: string
Labels == {Undefined, "", "weather"}

AssertCalls ==
  {[fn |-> "assertSingleToolCall", completion |-> c, label |-> l] :
     c \in Completions, l \in Labels}

\* new FunctionHandlerError(name, err), new FunctionReducerError(name, err)
ErrorCalls ==
  {[fn |-> f, name |-> n, err |-> c] :
     f \in {"FunctionHandlerError", "FunctionReducerError"}, n \in FnNames, c \in Causes}

\* toJsonSchema(functionDef), toTool(functionDef)
ConvertedDefs ==
  [name : {"testFunction", "increment"},
   description : {"A test function", "Increment state value"},
   schema : Schemas \cup {incrementSchema, ZObject(<<>>)}]

ConvertCalls ==
  {[fn |-> f, functionDef |-> d] : f \in {"toJsonSchema", "toTool"}, d \in ConvertedDefs}

----------------------------------------------------------------------------
(* The inputs of reduceToolCalls *)

incrementFunction ==
  [name |-> "increment", description |-> "Increment state value",
   schema |-> incrementSchema]

testDefinition ==
  [name |-> "testFunction", description |-> "A test function", schema |-> testSchema]

FunctionReducers ==
  {[functions |-> <<incrementFunction>>, reducer |-> "testReducer"],
   [functions |-> <<incrementFunction, testDefinition>>, reducer |-> "affineReducer"]}

IncrementArgs(n) == Stringify(JObj([k \in {"incrementBy"} |-> JNum(n)]))

ReducerToolCalls ==
  [name : {"increment"}, arguments : {IncrementArgs(n) : n \in 1..MaxNum} \cup {invalidArgs}]
  \cup [name : {"testFunction"}, arguments : {validArgs, truncatedArgs}]
  \cup [name : {"nonExistentFunction"}, arguments : {validArgs}]

ReducerToolCallLists ==
  {NoToolCalls}
  \cup {[defined |-> TRUE, list |-> l] : l \in ListsOf(ReducerToolCalls, MaxCalls)}

PrevStates == {0, 1}

----------------------------------------------------------------------------
(* The inputs of a handleToolCalls and a reduceToolCalls in flight together *)

\* longest list of tool calls of two invocations in flight together
MaxInFlightCalls == 1

InFlightHandlerLists == {<<testFunction, testFunction2>>}

InFlightToolCallLists ==
  {NoToolCalls}
  \cup {[defined |-> TRUE, list |-> l] :
          l \in ListsOf({[name |-> "testFunction", arguments |-> validArgs],
                         [name |-> "testFunction", arguments |-> invalidArgs],
                         [name |-> "increment", arguments |-> IncrementArgs(1)]},
                        MaxInFlightCalls)}

InFlightReducerToolCallLists ==
  {NoToolCalls}
  \cup {[defined |-> TRUE, list |-> l] :
          l \in ListsOf({[name |-> "increment", arguments |-> IncrementArgs(1)],
                         [name |-> "increment", arguments |-> invalidArgs],
                         [name |-> "testFunction", arguments |-> validArgs]},
                        MaxInFlightCalls)}

----------------------------------------------------------------------------
(* Lists with several entries of one name *)

\* a second definition of the name increment, with another schema
shadowedIncrement ==
  [name |-> "increment", description |-> "Increment state value", schema |-> testSchema]

ShadowedHandlerLists ==
  {<<testFunction, shadowedFunction>>, <<shadowedFunction, testFunction>>}

ShadowedReducers ==
  {[functions |-> <<incrementFunction, shadowedIncrement>>, reducer |-> "testReducer"],
   [functions |-> <<shadowedIncrement, incrementFunction>>, reducer |-> "testReducer"]}

FindCalls == {c \in PureCalls : c.fn \in {"findFunction", "findHandler"}}

----------------------------------------------------------------------------
(* The inputs of a batch of three calls *)

\* longest batch of tool calls
MaxBatchCalls == 3

BatchToolCallLists ==
  {[defined |-> TRUE, list |-> l] :
     l \in ListsOf({[name |-> "testFunction", arguments |-> validArgs],
                    [name |-> "testFunction", arguments |-> invalidArgs],
                    [name |-> "nonExistentFunction", arguments |-> validArgs]},
                   MaxBatchCalls)}

----------------------------------------------------------------------------
(* utils/logging.ts *)

\* the loggers a host may pass to setLogger; defaultLogger is not exported
CustomLoggers == {"loggerA", "loggerB"}

Loggers == {"defaultLogger"} \cup CustomLoggers

\* setLogger keeping a logger that was set before
KeepsFirstLogger(current, l) == IF current = "defaultLogger" THEN l ELSE current

\* setLogger: currentLogger = logger
SetCurrentLogger(current, l) == l

\* logger.info, logger.log and logger.error pass their arguments to the method
\* of the same name of currentLogger: received is what each logger was given
DeliverTo(received, current, entries) == [received EXCEPT ![current] = @ \o entries]

\* most calls of setLogger and of the logger functions
MaxSetLogger == 2

MaxLoggerCalls == 2

LoggerTexts == {<<"message1">>, <<"message2">>}

----------------------------------------------------------------------------
(* State *)

VARIABLES
  purePc,     \* "ready" | "done": a function applied to its arguments
  pureCall,   \* the function and its arguments
  pureRet,    \* what it returned or threw
  logged,     \* what the logger was given, in order
  currentLogger,  \* logging.ts: the logger in use
  setLog,         \* the loggers setLogger was called with, in order
  delivered,      \* what each logger object was given, in order
  handlers,   \* handleToolCalls: the handlers argument
  toolCalls,  \* handleToolCalls: the toolCalls argument
  hpc,        \* handleToolCalls: "idle" | "awaiting" | "done"
  promises,   \* the promise of handleSingleToolCall for each tool call
  reactions,  \* the settled promises Promise.all has yet to react to, in order
  all,        \* the promise of Promise.all
  result,     \* the promise handleToolCalls returned
  invoked,    \* the handler invocations made, in order
  outcomes,   \* what each invoked handler did: running, returned, threw, rejected
  prevState,        \* reduceToolCalls: the prevState argument
  functionReducer,  \* reduceToolCalls: the functionReducer argument
  redCalls,         \* reduceToolCalls: the toolCalls argument
  rpc,              \* reduceToolCalls: "idle" | "loop" | "done"
  next,             \* the index of the tool call forEach visits next
  state,            \* the local variable state
  redResult,        \* the promise reduceToolCalls returned
  reduced           \* the reducer invocations made, in order

pureVars == <<purePc, pureCall, pureRet>>

handleVars == <<handlers, toolCalls, hpc, promises, reactions, all, result, invoked, outcomes>>

reduceVars == <<prevState, functionReducer, redCalls, rpc, next, state, redResult, reduced>>

loggerVars == <<currentLogger, setLog, delivered>>

vars == <<purePc, pureCall, pureRet, logged, currentLogger, setLog, delivered, handlers, toolCalls, hpc, promises,
          reactions, all, result, invoked, outcomes,
          prevState, functionReducer, redCalls, rpc, next, state, redResult, reduced>>

NoRet == Returned(JNull, <<>>)

\* logging.ts as loaded: currentLogger = defaultLogger
LoggerDefault ==
  /\ currentLogger = "defaultLogger"
  /\ setLog = <<>>
  /\ delivered = [l \in Loggers |-> <<>>]

\* the logger functions called with the entries, in order
LoggerCalls(entries) ==
  /\ logged' = logged \o entries
  /\ delivered' = DeliverTo(delivered, currentLogger, entries)
  /\ UNCHANGED <<currentLogger, setLog>>

\* no pure function under way
PureOff ==
  /\ purePc = "off"
  /\ pureCall = [fn |-> "none"]
  /\ pureRet = NoRet

\* handleToolCalls not called
HandleOff(hs, tcs) ==
  /\ handlers = hs
  /\ toolCalls = tcs
  /\ hpc = "idle"
  /\ promises = <<>>
  /\ reactions = <<>>
  /\ all = PromiseAll(0)
  /\ result = Pending
  /\ invoked = <<>>
  /\ outcomes = <<>>

\* reduceToolCalls not called
ReduceOff(prev, fr, tcs) ==
  /\ prevState = prev
  /\ functionReducer = fr
  /\ redCalls = tcs
  /\ rpc = "idle"
  /\ next = 1
  /\ state = prev
  /\ redResult = Pending
  /\ reduced = <<>>

NoReducer == [functions |-> <<>>, reducer |-> "testReducer"]

\* a reducer looking names up in a registry the handlers are in as well
RegisteredReducer == [functionReducer EXCEPT !.functions = @ \o handlers]

\* the functionReducer a step of reduceToolCalls works with: its own argument
OwnReducer == functionReducer

----------------------------------------------------------------------------
(* The functions of utils/parse.ts and findHandler, applied once *)

InitPure ==
  /\ purePc = "ready"
  /\ pureCall \in PureCalls \cup AssertCalls \cup ErrorCalls \cup ConvertCalls
  /\ pureRet = NoRet
  /\ logged = <<>>
  /\ LoggerDefault
  /\ HandleOff(<<>>, NoToolCalls)
  /\ ReduceOff(0, NoReducer, NoToolCalls)

Finish(ret) ==
  /\ purePc' = "done"
  /\ pureRet' = ret
  /\ LoggerCalls(ret.logs)
  /\ UNCHANGED pureCall
  /\ UNCHANGED <<handleVars, reduceVars>>

ApplyParseArguments ==
  /\ purePc = "ready"
  /\ pureCall.fn = "parseArguments"
  /\ Finish(parseArguments(pureCall.name, pureCall.args, pureCall.schema))

ApplyFindFunction ==
  /\ purePc = "ready"
  /\ pureCall.fn = "findFunction"
  /\ Finish(findFunction(pureCall.name, pureCall.list))

ApplyFindHandler ==
  /\ purePc = "ready"
  /\ pureCall.fn = "findHandler"
  /\ Finish(findHandler(pureCall.name, pureCall.list))

ApplyAssertSingleToolCall ==
  /\ purePc = "ready"
  /\ pureCall.fn = "assertSingleToolCall"
  /\ Finish(assertSingleToolCall(pureCall.completion, pureCall.label))

ApplyNewHandlerError ==
  /\ purePc = "ready"
  /\ pureCall.fn = "FunctionHandlerError"
  /\ Finish(Returned(FunctionHandlerError(pureCall.name, pureCall.err), <<>>))

ApplyNewReducerError ==
  /\ purePc = "ready"
  /\ pureCall.fn = "FunctionReducerError"
  /\ Finish(Returned(FunctionReducerError(pureCall.name, pureCall.err), <<>>))

ApplyToJsonSchema ==
  /\ purePc = "ready"
  /\ pureCall.fn = "toJsonSchema"
  /\ Finish(Returned(toJsonSchema(pureCall.functionDef), <<>>))

ApplyToTool ==
  /\ purePc = "ready"
  /\ pureCall.fn = "toTool"
  /\ Finish(Returned(toTool(pureCall.functionDef), <<>>))

NextPure ==
  \/ ApplyParseArguments
  \/ ApplyFindFunction
  \/ ApplyFindHandler
  \/ ApplyAssertSingleToolCall
  \/ ApplyNewHandlerError
  \/ ApplyNewReducerError
  \/ ApplyToJsonSchema
  \/ ApplyToTool

SpecPure == InitPure /\ [][NextPure]_vars

----------------------------------------------------------------------------
(* handleToolCalls *)

InitHandle ==
  /\ PureOff
  /\ logged = <<>>
  /\ LoggerDefault
  /\ \E hs \in HandlerLists, tcs \in ToolCallLists : HandleOff(hs, tcs)
  /\ ReduceOff(0, NoReducer, NoToolCalls)

NumCalls == Len(toolCalls.list)

\* the indices of the settled promises among 1..n, in increasing order
RECURSIVE SettledFrom(_, _, _)
SettledFrom(ps, i, n) ==
  IF i > n THEN <<>>
  ELSE (IF ps[i].state # "pending" THEN <<i>> ELSE <<>>) \o SettledFrom(ps, i + 1, n)

\* handleToolCalls up to its await: toolCalls undefined returns []; otherwise
\* map starts handleSingleToolCall for every tool call in order, each running
\* up to its await, and Promise.all subscribes to their promises.
HandleToolCalls ==
  /\ hpc = "idle"
  /\ IF ~toolCalls.defined
     THEN /\ hpc' = "done"
          /\ result' = ReturnsEmpty
          /\ UNCHANGED <<promises, reactions, all, invoked, outcomes, logged, loggerVars>>
     ELSE \E sync \in [1..NumCalls -> SyncChoices] :
            LET started == StartAll(handlers, toolCalls.list, sync)
                ps == [i \in 1..NumCalls |-> started[i].promise]
            IN  /\ promises' = ps
                /\ invoked' = Concat([i \in 1..NumCalls |-> started[i].invoked], 1, NumCalls)
                /\ LoggerCalls(Concat([i \in 1..NumCalls |-> started[i].logs], 1, NumCalls))
                /\ outcomes' = [i \in 1..NumCalls |-> started[i].outcome]
                /\ all' = PromiseAll(NumCalls)
                /\ reactions' = SettledFrom(ps, 1, NumCalls)
                /\ hpc' = "awaiting"
                /\ UNCHANGED result
  /\ UNCHANGED <<handlers, toolCalls>>
  /\ UNCHANGED <<pureVars, reduceVars>>

\* the handler's promise of call i is fulfilled: handleSingleToolCall logs the
\* output and returns it
HandlerResolves(i, output) ==
  /\ hpc # "idle"
  /\ i \in 1..NumCalls
  /\ promises[i].state = "pending"
  /\ promises' = [promises EXCEPT ![i] = Fulfilled(output)]
  /\ outcomes' = [outcomes EXCEPT ![i] = [how |-> "returned", output |-> output]]
  /\ LoggerCalls(<<Info(<<"Tool handler output: ", output>>)>>)
  /\ reactions' = Append(reactions, i)
  /\ UNCHANGED <<handlers, toolCalls, hpc, all, result, invoked>>
  /\ UNCHANGED <<pureVars, reduceVars>>

\* the handler's promise of call i is rejected: handleSingleToolCall throws a
\* FunctionHandlerError
HandlerRejects(i, cause) ==
  /\ hpc # "idle"
  /\ i \in 1..NumCalls
  /\ promises[i].state = "pending"
  /\ promises' = [promises EXCEPT ![i] =
                    Rejected(FunctionHandlerError(toolCalls.list[i].name, cause))]
  /\ outcomes' = [outcomes EXCEPT ![i] = [how |-> "rejected", cause |-> cause]]
  /\ reactions' = Append(reactions, i)
  /\ UNCHANGED <<handlers, toolCalls, hpc, all, result, invoked, logged, loggerVars>>
  /\ UNCHANGED <<pureVars, reduceVars>>

\* Promise.all reacts to the settled promise it was told of first
React ==
  /\ reactions # <<>>
  /\ all' = PromiseAllReact(all, Head(reactions), promises[Head(reactions)])
  /\ reactions' = Tail(reactions)
  /\ UNCHANGED <<handlers, toolCalls, hpc, promises, result, invoked, outcomes, logged, loggerVars>>
  /\ UNCHANGED <<pureVars, reduceVars>>

\* the await of handleToolCalls ends: it returns the outputs or throws
HandleReturn ==
  /\ hpc = "awaiting"
  /\ all.state # "pending"
  /\ hpc' = "done"
  /\ result' = IF all.state = "fulfilled" THEN Fulfilled(all.values) ELSE Rejected(all.error)
  /\ UNCHANGED <<handlers, toolCalls, promises, reactions, all, invoked, outcomes, logged, loggerVars>>
  /\ UNCHANGED <<pureVars, reduceVars>>

NextHandle ==
  \/ HandleToolCalls
  \/ \E i \in 1..NumCalls, output \in Outputs : HandlerResolves(i, output)
  \/ \E i \in 1..NumCalls, cause \in Causes : HandlerRejects(i, cause)
  \/ React
  \/ HandleReturn

SpecHandle == InitHandle /\ [][NextHandle]_vars

----------------------------------------------------------------------------
(* reduceToolCalls *)

InitReduce ==
  /\ PureOff
  /\ logged = <<>>
  /\ LoggerDefault
  /\ HandleOff(<<>>, NoToolCalls)
  /\ \E prev \in PrevStates, fr \in FunctionReducers, tcs \in ReducerToolCallLists :
       ReduceOff(prev, fr, tcs)

\* reduceToolCalls up to forEach: toolCalls undefined returns prevState
ReduceToolCalls ==
  /\ rpc = "idle"
  /\ IF ~redCalls.defined
     THEN /\ rpc' = "done"
          /\ redResult' = ReturnsPrevState(prevState)
          /\ UNCHANGED state
     ELSE /\ rpc' = "loop"
          /\ state' = prevState
          /\ UNCHANGED redResult
  /\ UNCHANGED <<prevState, functionReducer, redCalls, next, reduced, logged, loggerVars>>
  /\ UNCHANGED <<pureVars, handleVars>>

\* forEach visits the next tool call; an exception of the callback ends
\* forEach and rejects the promise of reduceToolCalls
ReduceStep ==
  /\ rpc = "loop"
  /\ next <= Len(redCalls.list)
  /\ \E sync \in SyncChoices :
       LET r == ReduceCall(OwnReducer, prevState, state, redCalls.list[next], next, sync)
       IN  /\ reduced' = reduced \o r.reduced
           /\ LoggerCalls(r.logs)
           /\ IF r.ok
              THEN /\ state' = r.state
                   /\ next' = next + 1
                   /\ UNCHANGED <<rpc, redResult>>
              ELSE /\ redResult' = Rejected(r.error)
                   /\ rpc' = "done"
                   /\ UNCHANGED <<state, next>>
  /\ UNCHANGED <<prevState, functionReducer, redCalls>>
  /\ UNCHANGED <<pureVars, handleVars>>

\* forEach is through: reduceToolCalls returns state
ReduceReturn ==
  /\ rpc = "loop"
  /\ next > Len(redCalls.list)
  /\ rpc' = "done"
  /\ redResult' = Fulfilled(state)
  /\ UNCHANGED <<prevState, functionReducer, redCalls, next, state, reduced, logged, loggerVars>>
  /\ UNCHANGED <<pureVars, handleVars>>

NextReduce ==
  \/ ReduceToolCalls
  \/ ReduceStep
  \/ ReduceReturn

SpecReduce == InitReduce /\ [][NextReduce]_vars

----------------------------------------------------------------------------
(* A handleToolCalls and a reduceToolCalls in flight together, their steps
   interleaved in every order *)

InitBoth ==
  /\ PureOff
  /\ logged = <<>>
  /\ LoggerDefault
  /\ \E hs \in InFlightHandlerLists, tcs \in InFlightToolCallLists : HandleOff(hs, tcs)
  /\ \E fr \in FunctionReducers, tcs \in InFlightReducerToolCallLists : ReduceOff(1, fr, tcs)

NextBoth ==
  \/ NextHandle
  \/ NextReduce

SpecBoth == InitBoth /\ [][NextBoth]_vars

----------------------------------------------------------------------------
(* setLogger and the logger functions, called by the host in any order *)

InitLogger ==
  /\ PureOff
  /\ logged = <<>>
  /\ LoggerDefault
  /\ HandleOff(<<>>, NoToolCalls)
  /\ ReduceOff(0, NoReducer, NoToolCalls)

SetLogger(l) ==
  /\ Len(setLog) < MaxSetLogger
  /\ currentLogger' = SetCurrentLogger(currentLogger, l)
  /\ setLog' = Append(setLog, l)
  /\ UNCHANGED <<logged, delivered>>
  /\ UNCHANGED <<pureVars, handleVars, reduceVars>>

LoggerInfo(text) ==
  /\ Len(logged) < MaxLoggerCalls
  /\ LoggerCalls(<<[level |-> "info", text |-> text]>>)
  /\ UNCHANGED <<pureVars, handleVars, reduceVars>>

LoggerLog(text) ==
  /\ Len(logged) < MaxLoggerCalls
  /\ LoggerCalls(<<[level |-> "log", text |-> text]>>)
  /\ UNCHANGED <<pureVars, handleVars, reduceVars>>

LoggerError(text) ==
  /\ Len(logged) < MaxLoggerCalls
  /\ LoggerCalls(<<[level |-> "error", text |-> text]>>)
  /\ UNCHANGED <<pureVars, handleVars, reduceVars>>

NextLogger ==
  \/ \E l \in CustomLoggers : SetLogger(l)
  \/ \E text \in LoggerTexts : LoggerInfo(text)
  \/ \E text \in LoggerTexts : LoggerLog(text)
  \/ \E text \in LoggerTexts : LoggerError(text)

SpecLogger == InitLogger /\ [][NextLogger]_vars

----------------------------------------------------------------------------
(* A lookup, a handleToolCalls or a reduceToolCalls on lists that may have
   several entries of one name *)

InitFirstMatch ==
  /\ logged = <<>>
  /\ LoggerDefault
  /\ \/ /\ purePc = "ready"
        /\ pureCall \in FindCalls
        /\ pureRet = NoRet
        /\ HandleOff(<<>>, NoToolCalls)
        /\ ReduceOff(0, NoReducer, NoToolCalls)
     \/ /\ PureOff
        /\ \E hs \in ShadowedHandlerLists, tcs \in ToolCallLists : HandleOff(hs, tcs)
        /\ ReduceOff(0, NoReducer, NoToolCalls)
     \/ /\ PureOff
        /\ HandleOff(<<>>, NoToolCalls)
        /\ \E prev \in PrevStates, fr \in ShadowedReducers, tcs \in ReducerToolCallLists :
             ReduceOff(prev, fr, tcs)

NextFirstMatch ==
  \/ ApplyFindFunction
  \/ ApplyFindHandler
  \/ NextHandle
  \/ NextReduce

SpecFirstMatch == InitFirstMatch /\ [][NextFirstMatch]_vars

----------------------------------------------------------------------------
(* handleToolCalls on a batch of up to three calls *)

InitBatch ==
  /\ PureOff
  /\ logged = <<>>
  /\ LoggerDefault
  /\ \E tcs \in BatchToolCallLists : HandleOff(<<testFunction>>, tcs)
  /\ ReduceOff(0, NoReducer, NoToolCalls)

SpecBatch == InitBatch /\ [][NextHandle]_vars

----------------------------------------------------------------------------
(* parseArguments, handleToolCalls or reduceToolCalls with a logger the host
   has installed, or with the default logger *)

\* logging.ts after setLogger(l), or as loaded
LoggerInstalled(l) ==
  /\ currentLogger = l
  /\ setLog = IF l = "defaultLogger" THEN <<>> ELSE <<l>>
  /\ delivered = [k \in Loggers |-> <<>>]

ObservedParseCalls ==
  {[fn |-> "parseArguments", name |-> "testFunction", args |-> a, schema |-> sc] :
     a \in {validArgs, invalidArgs, truncatedArgs}, sc \in {testSchema, incrementSchema}}

InitObserved ==
  /\ logged = <<>>
  /\ \E l \in Loggers : LoggerInstalled(l)
  /\ \/ /\ purePc = "ready"
        /\ pureCall \in ObservedParseCalls
        /\ pureRet = NoRet
        /\ HandleOff(<<>>, NoToolCalls)
        /\ ReduceOff(0, NoReducer, NoToolCalls)
     \/ /\ PureOff
        /\ \E hs \in InFlightHandlerLists, tcs \in InFlightToolCallLists : HandleOff(hs, tcs)
        /\ ReduceOff(0, NoReducer, NoToolCalls)
     \/ /\ PureOff
        /\ HandleOff(<<>>, NoToolCalls)
        /\ \E fr \in FunctionReducers, tcs \in InFlightReducerToolCallLists :
             ReduceOff(1, fr, tcs)

NextObserved ==
  \/ ApplyParseArguments
  \/ NextHandle
  \/ NextReduce

SpecObserved == InitObserved /\ [][NextObserved]_vars

----------------------------------------------------------------------------
(* Claims about parseArguments, findFunction and findHandler (SpecPure) *)

ParseDone == purePc = "done" /\ pureCall.fn = "parseArguments"

FindDone == purePc = "done" /\ pureCall.fn \in {"findFunction", "findHandler"}

\* the text does not decode, or it decodes to a value the schema rejects
BadArguments(args, schema) ==
  \/ ~JsonParse(args).ok
  \/ ~SafeParse(schema, JsonParse(args).v).success

\* C1: parseArguments applied to a text that fails to decode as JSON, or that
\* decodes to a value the schema rejects, throws InvalidFunctionArguments and
\* returns no value.
C1_BadArgumentsThrowInvalidArguments ==
  (ParseDone /\ BadArguments(pureCall.args, pureCall.schema))
    => (~pureRet.ok /\ pureRet.error.kind = "InvalidFunctionArguments")

\* C2: for a value V the schema accepts, parseArguments applied to
\* JSON.stringify(V) returns the schema's validated output for V (its declared
\* members only), not the decoded input, and throws nothing.
C2_AcceptedValueReturnsSchemaData ==
  ParseDone =>
    \A v \in ArgValues :
      (pureCall.args = Stringify(v) /\ SafeParse(pureCall.schema, v).success)
        => (pureRet.ok /\ pureRet.value = SafeParse(pureCall.schema, v).data)

\* a value with a member the schema does not declare was parsed and returned
C2_Witness ==
  /\ ParseDone
  /\ pureRet.ok
  /\ \E v \in ArgObjects :
       /\ pureCall.args = Stringify(v)
       /\ "extra" \in DOMAIN v.m
       /\ pureRet.value # v

UniqueNames(list) ==
  \A i, j \in 1..Len(list) : list[i].name = list[j].name => i = j

\* C3: on a list with unique names, findFunction and findHandler return the
\* entry whose name is the one looked up when the list has one, and throw
\* InvalidFunctionName, naming the name looked up, when it has none.
C3_FindReturnsNamedEntryOrThrows ==
  (FindDone /\ UniqueNames(pureCall.list)) =>
    /\ \A i \in 1..Len(pureCall.list) :
         pureCall.list[i].name = pureCall.name
           => (pureRet.ok /\ pureRet.value = pureCall.list[i])
    /\ (\A i \in 1..Len(pureCall.list) : pureCall.list[i].name # pureCall.name)
         => /\ ~pureRet.ok
            /\ pureRet.error.kind = "InvalidFunctionName"
            /\ pureRet.error.message = <<"Function not found: ", pureCall.name>>

\* the second entry of a two-entry list was found
C3_Witness ==
  /\ FindDone
  /\ pureCall.fn = "findHandler"
  /\ Len(pureCall.list) = 2
  /\ UniqueNames(pureCall.list)
  /\ pureRet.ok
  /\ pureRet.value = pureCall.list[2]

----------------------------------------------------------------------------
(* Claims about handleToolCalls (SpecHandle) *)

Range(f) == {f[i] : i \in DOMAIN f}

CallIds == DOMAIN promises

WasInvoked(i) == \E j \in DOMAIN invoked : invoked[j].call = i

\* the outputs of the handlers, by call
HandlerOutputs == [i \in CallIds |-> outcomes[i].output]

OutputLogged(k, output) ==
  k \in DOMAIN logged /\ logged[k] = Info(<<"Tool handler output: ", output>>)

\* C4: when every call of a batch succeeded, handleToolCalls resolves to a
\* list as long as toolCalls whose i-th element is the output of the handler
\* invoked for the i-th call, in whatever order the handlers completed.
C4_OutputsInCallOrder ==
  (hpc = "done" /\ toolCalls.defined /\ \A i \in CallIds : promises[i].state = "fulfilled")
    => /\ result.state = "fulfilled"
       /\ Len(result.value) = Len(toolCalls.list)
       /\ \A i \in CallIds : result.value[i] = outcomes[i].output

\* two calls, the second completed first, and the outputs are in call order
C4_Witness ==
  /\ hpc = "done"
  /\ result = Fulfilled(<<"output1", "output2">>)
  /\ \E j, k \in DOMAIN logged :
       j < k /\ OutputLogged(j, "output2") /\ OutputLogged(k, "output1")

\* C5 as stated: handleToolCalls neither resolves nor rejects before every
\* call of the batch has finished.
C5_CompletesAfterEveryCall ==
  result.state # "pending" => \A i \in CallIds : promises[i].state # "pending"

\* C5 amended: handleToolCalls resolves only when every call of the batch is
\* fulfilled; it rejects with the error of a rejected call, and may do so
\* while other calls are pending.
C5_ResolvesAfterEveryCall ==
  /\ result.state = "fulfilled" => \A i \in CallIds : promises[i].state = "fulfilled"
  /\ result.state = "rejected" =>
       \E i \in CallIds : promises[i] = Rejected(result.error)

\* handleToolCalls has rejected while a handler is running
C5_Witness ==
  /\ result.state = "rejected"
  /\ \E i \in CallIds : promises[i].state = "pending" /\ WasInvoked(i)

\* C6: if a call of the batch failed, handleToolCalls returns no list of
\* outputs: it is rejected once it completes, and once Promise.all has
\* reacted to every settled call the join is rejected.
C6_AnyFailureRejectsBatch ==
  (\E i \in CallIds : promises[i].state = "rejected")
    => /\ result.state # "fulfilled"
       /\ hpc = "done" => result.state = "rejected"
       /\ reactions = <<>> => all.state = "rejected"

\* one call returned an output, the other failed, and the batch is rejected
C6_Witness ==
  /\ hpc = "done"
  /\ result.state = "rejected"
  /\ \E i, j \in CallIds :
       promises[i].state = "fulfilled" /\ promises[j].state = "rejected"

\* C7: a call whose name no handler has fails with InvalidFunctionName, a call
\* whose arguments decode to a value the schema of its handler rejects fails
\* with InvalidFunctionArguments, and for neither is a handler invoked.
C7_NoHandlerForBadCall ==
  \A i \in CallIds :
    LET call == toolCalls.list[i]
        decoded == JsonParse(call.arguments)
    IN  /\ Matches(call.name, handlers) = {}
             => /\ promises[i].state = "rejected"
                /\ promises[i].error.kind = "InvalidFunctionName"
                /\ ~WasInvoked(i)
        /\ (/\ Matches(call.name, handlers) # {}
            /\ decoded.ok
            /\ ~SafeParse(FindByName(call.name, handlers).schema, decoded.v).success)
             => /\ promises[i].state = "rejected"
                /\ promises[i].error.kind = "InvalidFunctionArguments"
                /\ ~WasInvoked(i)

\* a batch of a call with rejected arguments and a call of an unknown name,
\* with a handler invoked for neither
C7_Witness ==
  /\ hpc = "done"
  /\ Len(promises) = 2
  /\ promises[1].state = "rejected"
  /\ promises[1].error.kind = "InvalidFunctionArguments"
  /\ promises[2].state = "rejected"
  /\ promises[2].error.kind = "InvalidFunctionName"
  /\ handlers # <<>>
  /\ invoked = <<>>

\* C8: with toolCalls undefined or empty, handleToolCalls resolves to an empty
\* list and invokes no handler, whatever the handlers.
C8_NoCallsResolveEmpty ==
  (~toolCalls.defined \/ toolCalls.list = <<>>)
    => /\ invoked = <<>>
       /\ result.state # "rejected"
       /\ hpc = "done" => result = Fulfilled(<<>>)

\* handleToolCalls(handlers, undefined) has returned, handlers not empty
C8_Witness ==
  /\ hpc = "done"
  /\ ~toolCalls.defined
  /\ handlers # <<>>
  /\ result = Fulfilled(<<>>)

\* the text of a cause: the message of an Error, or the value thrown
CauseText(cause) == IF cause.isError THEN cause.message ELSE cause.thrown

HandlerFailed(i) == outcomes[i].how \in {"threw", "rejected"}

\* C9 as stated: a failure raised by an invoked handler makes the call fail
\* with a FunctionHandlerError that carries the function name and the cause.
C9_HandlerErrorCarriesCause ==
  \A i \in CallIds :
    HandlerFailed(i)
      => /\ promises[i].state = "rejected"
         /\ promises[i].error.kind = "FunctionHandlerError"
         /\ toolCalls.list[i].name \in Range(promises[i].error.message)
         /\ CauseText(outcomes[i].cause) \in Range(promises[i].error.message)

\* C9 amended: a failure raised by an invoked handler, thrown or delivered as a
\* rejection, makes the call fail with a FunctionHandlerError whose message
\* carries the function name and, when the cause is an Error, the message of
\* the cause; of a cause that is no Error it carries only "Unknown error".
C9_HandlerErrorCarriesMessage ==
  \A i \in CallIds :
    HandlerFailed(i)
      => /\ promises[i].state = "rejected"
         /\ promises[i].error.kind = "FunctionHandlerError"
         /\ toolCalls.list[i].name \in Range(promises[i].error.message)
         /\ outcomes[i].cause.isError
              => outcomes[i].cause.message \in Range(promises[i].error.message)
         /\ ~outcomes[i].cause.isError
              => /\ "Unknown error" \in Range(promises[i].error.message)
                 /\ outcomes[i].cause.thrown \notin Range(promises[i].error.message)

\* one handler threw a value that is no Error, another rejected with an Error
C9_Witness ==
  \E i, j \in CallIds :
    /\ outcomes[i].how = "threw"
    /\ ~outcomes[i].cause.isError
    /\ outcomes[j].how = "rejected"
    /\ outcomes[j].cause.isError
    /\ promises[i].state = "rejected"
    /\ promises[j].state = "rejected"

----------------------------------------------------------------------------
(* Claims about reduceToolCalls (SpecReduce) *)

\* the validated arguments of the i-th tool call
ValidatedArgs(i) ==
  LET call == redCalls.list[i]
  IN  SafeParse(FindByName(call.name, functionReducer.functions).schema,
                JsonParse(call.arguments).v).data

\* reducer(...reducer(reducer(s0, c1), c2)..., ci)
RECURSIVE FoldLeft(_)
FoldLeft(i) ==
  IF i = 0 THEN prevState
  ELSE ApplyReducer(functionReducer.reducer, FoldLeft(i - 1),
                    redCalls.list[i].name, ValidatedArgs(i))

\* the same calls folded from the right
RECURSIVE FoldRight(_, _)
FoldRight(i, st) ==
  IF i = 0 THEN st
  ELSE FoldRight(i - 1, ApplyReducer(functionReducer.reducer, st,
                                     redCalls.list[i].name, ValidatedArgs(i)))

\* C10: when every call succeeds, reduceToolCalls resolves to the left fold of
\* the reducer over the calls in input order: the reducer is invoked once for
\* every call, in order, the first time with prevState and each next time with
\* the state the invocation before returned.
C10_ResultIsLeftFold ==
  (rpc = "done" /\ redCalls.defined /\ redResult.state = "fulfilled")
    => /\ redResult.value = FoldLeft(Len(redCalls.list))
       /\ Len(reduced) = Len(redCalls.list)
       /\ \A i \in DOMAIN reduced :
            /\ reduced[i].call = i
            /\ reduced[i].state = FoldLeft(i - 1)

\* two calls were folded, the second saw what the first did, and the order
\* of the calls shows in the result
C10_Witness ==
  /\ rpc = "done"
  /\ redResult.state = "fulfilled"
  /\ Len(redCalls.list) = 2
  /\ reduced[2].state # prevState
  /\ redResult.value # FoldRight(2, prevState)

\* C11: with toolCalls undefined or empty, reduceToolCalls resolves to
\* prevState unchanged and never invokes the reducer, whatever the state and
\* the functionReducer.
C11_NoCallsResolvePrevState ==
  (~redCalls.defined \/ redCalls.list = <<>>)
    => /\ reduced = <<>>
       /\ redResult.state # "rejected"
       /\ rpc = "done" => redResult = Fulfilled(prevState)

\* reduceToolCalls(1, functionReducer, undefined) has returned
C11_Witness ==
  /\ rpc = "done"
  /\ ~redCalls.defined
  /\ prevState = 1
  /\ redResult = Fulfilled(1)

\* reduceToolCalls ended at a tool call it did not get past
FoldFailed == rpc = "done" /\ redCalls.defined /\ next <= Len(redCalls.list)

\* the reducer threw at the tool call forEach ended at
ReducerThrew ==
  /\ reduced # <<>>
  /\ reduced[Len(reduced)].call = next
  /\ reduced[Len(reduced)].outcome.how = "threw"

\* the failing step of a name absent from the functions, or of arguments
\* that decode to a value the schema rejects, gave the error of its kind
StepErrorOfKind ==
  LET call == redCalls.list[next]
      decoded == JsonParse(call.arguments)
      known == Matches(call.name, functionReducer.functions) # {}
  IN  /\ redResult.state = "rejected"
      /\ ~known
           => /\ redResult.error.kind = "InvalidFunctionName"
              /\ redResult.error.message = <<"Function not found: ", call.name>>
      /\ (/\ known
          /\ decoded.ok
          /\ ~SafeParse(FindByName(call.name, functionReducer.functions).schema,
                        decoded.v).success)
           => /\ redResult.error.kind = "InvalidFunctionArguments"
              /\ call.name \in Range(redResult.error.message)
      /\ ReducerThrew
           => /\ redResult.error.kind = "FunctionReducerError"
              /\ call.name \in Range(redResult.error.message)

\* C12 as stated: a step fails with InvalidFunctionName, with
\* InvalidFunctionArguments, or with a FunctionReducerError that carries the
\* function name and the cause, and reduceToolCalls rejects with that error.
C12_StepErrorCarriesCause ==
  FoldFailed
    => /\ StepErrorOfKind
       /\ ReducerThrew
            => CauseText(reduced[Len(reduced)].outcome.cause)
                 \in Range(redResult.error.message)

\* C12 amended: as stated, except that the FunctionReducerError carries the
\* function name and, when the cause is an Error, the message of the cause; of
\* a cause that is no Error it carries only "Unknown error".
C12_StepErrorCarriesMessage ==
  FoldFailed
    => /\ StepErrorOfKind
       /\ ReducerThrew
            => LET cause == reduced[Len(reduced)].outcome.cause IN
               /\ cause.isError => cause.message \in Range(redResult.error.message)
               /\ ~cause.isError
                    => /\ "Unknown error" \in Range(redResult.error.message)
                       /\ cause.thrown \notin Range(redResult.error.message)

\* the reducer threw a value that is no Error at the second tool call
C12_Witness ==
  /\ FoldFailed
  /\ next = 2
  /\ ReducerThrew
  /\ ~reduced[Len(reduced)].outcome.cause.isError
  /\ redResult.state = "rejected"

\* the i-th tool call cannot reach the reducer: its name is absent from the
\* functions, or its arguments do not decode, or the schema rejects them
BadReducerCall(i) ==
  LET call == redCalls.list[i]
      decoded == JsonParse(call.arguments)
  IN  \/ Matches(call.name, functionReducer.functions) = {}
      \/ ~decoded.ok
      \/ ~SafeParse(FindByName(call.name, functionReducer.functions).schema,
                    decoded.v).success

\* C13: when a step fails the fold ends there: no later tool call reaches
\* the reducer, nothing more is logged for one, and reduceToolCalls returns
\* no state, neither the state of the steps before nor any other.
C13_FailedStepEndsFold ==
  /\ \A k \in 1..Len(redCalls.list) :
       BadReducerCall(k)
         => /\ \A j \in DOMAIN reduced : reduced[j].call < k
            /\ next <= k
            /\ redResult.state # "fulfilled"
  /\ \A j \in DOMAIN reduced :
       reduced[j].outcome.how = "threw"
         => /\ j = Len(reduced)
            /\ next = reduced[j].call
            /\ rpc = "done"
            /\ redResult.state = "rejected"

\* the first step changed the state, the second failed, nothing was returned
C13_Witness ==
  /\ rpc = "done"
  /\ Len(redCalls.list) = 2
  /\ next = 2
  /\ state # prevState
  /\ redResult.state = "rejected"

\* C14: the reducer is only ever invoked with a name that is in the
\* functions and with the validated output of that definition's schema for
\* the arguments of the call.
C14_ReducerGetsValidatedCalls ==
  \A j \in DOMAIN reduced :
    LET call == redCalls.list[reduced[j].call]
        decoded == JsonParse(call.arguments)
    IN  /\ reduced[j].name = call.name
        /\ Matches(call.name, functionReducer.functions) # {}
        /\ decoded.ok
        /\ LET checked == SafeParse(FindByName(call.name, functionReducer.functions).schema,
                                    decoded.v)
           IN  checked.success /\ reduced[j].args = checked.data

\* the reducer was invoked for a call, the fold then met a name absent from
\* the functions, and the reducer was not invoked again
C14_Witness ==
  /\ rpc = "done"
  /\ Len(redCalls.list) = 2
  /\ Len(reduced) = 1
  /\ reduced[1].args # JsonParse(redCalls.list[1].arguments).v
  /\ redResult.state = "rejected"
  /\ redResult.error.kind = "InvalidFunctionName"

\* C15: the steps of reduceToolCalls run one after the other: the reducer is
\* invoked for the tool calls in input order, every invocation before the
\* last has returned, and the state given to an invocation is what the
\* invocation before it returned.
C15_StepsRunInSequence ==
  /\ \A j \in DOMAIN reduced :
       /\ reduced[j].call = j
       /\ j < Len(reduced) => reduced[j].outcome.how = "returned"
       /\ j > 1 => reduced[j].state = reduced[j - 1].outcome.state
  /\ reduced # <<>> => reduced[1].state = prevState
  /\ (rpc = "loop" /\ reduced # <<>>) => state = reduced[Len(reduced)].outcome.state

\* a second step was given the changed state the first step returned
C15_Witness ==
  /\ Len(reduced) = 2
  /\ reduced[1].outcome.how = "returned"
  /\ reduced[1].outcome.state # prevState
  /\ reduced[2].state = reduced[1].outcome.state

AssertDone == purePc = "done" /\ pureCall.fn = "assertSingleToolCall"

\* C16: assertSingleToolCall returns normally if and only if the completion
\* has exactly one choice and the message of that choice has a tool_calls
\* list of exactly one element; in every other case it throws.
C16_ReturnsIffSingleToolCall ==
  AssertDone
    => LET choices == pureCall.completion.choices IN
       pureRet.ok <=> /\ Len(choices) = 1
                      /\ choices[1].message.tool_calls.defined
                      /\ Len(choices[1].message.tool_calls.list) = 1

\* assertSingleToolCall threw for a single choice with an empty tool_calls list
C16_Witness ==
  /\ AssertDone
  /\ Len(pureCall.completion.choices) = 1
  /\ pureCall.completion.choices[1].message.tool_calls.defined
  /\ pureCall.completion.choices[1].message.tool_calls.list = <<>>
  /\ ~pureRet.ok
  /\ pureRet.error.kind = "Error"

\* part occurs in whole as a run of consecutive entries
Within(part, whole) ==
  \E i \in 0..(Len(whole) - Len(part)) : SubSeq(whole, i + 1, i + Len(part)) = part

\* parseArguments threw an InvalidFunctionArguments error
ThrewInvalidArguments ==
  /\ ParseDone
  /\ ~pureRet.ok
  /\ pureRet.error.kind = "InvalidFunctionArguments"

\* the error has the name and the validation message in its message and
\* OpenAI as its source
CarriesNameMessageSource ==
  /\ pureCall.name \in Range(pureRet.error.message)
  /\ Within(FromZodErrorMessage(SafeParse(pureCall.schema, JsonParse(pureCall.args).v).error),
            pureRet.error.message)
  /\ pureRet.error.source = "OpenAI"

\* C17 as stated: an InvalidFunctionArguments error carries the function
\* name, the raw argument text, the aggregated validation message and the
\* source OpenAI.
C17_ErrorCarriesRawArguments ==
  ThrewInvalidArguments
    => /\ CarriesNameMessageSource
       /\ Within(pureCall.args, pureRet.error.message)

\* C17 amended: an InvalidFunctionArguments error carries the function name,
\* the aggregated validation message and the source OpenAI, and nothing else
\* next to its kind and status: its message is the name and the validation
\* message; the raw argument text is written to the logger at level error.
C17_ErrorLogsRawArguments ==
  ThrewInvalidArguments
    => /\ CarriesNameMessageSource
       /\ DOMAIN pureRet.error = {"kind", "message", "status", "source"}
       /\ pureRet.error.message
            = <<"Invalid ", pureCall.name, " function args: ">>
              \o FromZodErrorMessage(SafeParse(pureCall.schema,
                                               JsonParse(pureCall.args).v).error)
       /\ \E j \in DOMAIN logged :
            /\ logged[j].level = "error"
            /\ Within(pureCall.args, logged[j].text)

\* parseArguments threw InvalidFunctionArguments for a text the schema rejects
C17_Witness ==
  /\ ThrewInvalidArguments
  /\ ~Within(pureCall.args, pureRet.error.message)
  /\ logged # <<>>

\* the errors the applied function threw or constructed
ErrorsMade ==
  IF purePc # "done" THEN {}
  ELSE IF pureCall.fn \in {"FunctionHandlerError", "FunctionReducerError"}
  THEN {pureRet.value}
  ELSE IF ~pureRet.ok THEN {pureRet.error}
  ELSE {}

ClassifiedKinds ==
  {"InvalidFunctionName", "InvalidFunctionArguments", "FunctionHandlerError",
   "FunctionReducerError"}

\* C18: every InvalidFunctionName, InvalidFunctionArguments,
\* FunctionHandlerError and FunctionReducerError has status 500, and the
\* source is OpenAI on InvalidFunctionArguments and on none of the others.
C18_Status500SourceOnArguments ==
  \A e \in ErrorsMade :
    e.kind \in ClassifiedKinds
      => /\ e.status = 500
         /\ e.source = "OpenAI" <=> e.kind = "InvalidFunctionArguments"

\* an error of a kind without the source was made
C18_Witness ==
  \E e \in ErrorsMade :
    /\ e.kind \in ClassifiedKinds \ {"InvalidFunctionArguments"}
    /\ e.status = 500
    /\ e.source = Undefined

\* C19: no failure is retried or swallowed: in one handleToolCalls the
\* handler of a call is invoked at most once, with exactly the value
\* parseArguments returned, and a call that failed stays failed with its one
\* invocation; reduceToolCalls invokes the reducer at most once for a call.
C19_InvokedAtMostOnce ==
  /\ \A i \in DOMAIN promises :
       /\ Cardinality({j \in DOMAIN invoked : invoked[j].call = i}) <= 1
       /\ HandlerFailed(i)
            => /\ promises[i].state = "rejected"
               /\ Cardinality({j \in DOMAIN invoked : invoked[j].call = i}) = 1
       /\ (hpc = "done" /\ promises[i].state = "rejected") => result.state = "rejected"
  /\ \A j \in DOMAIN invoked :
       LET call == toolCalls.list[invoked[j].call]
           handler == FindByName(call.name, handlers)
           parameters == parseArguments(call.name, call.arguments, handler.schema)
       IN  /\ invoked[j].handler = handler.handler
           /\ parameters.ok
           /\ invoked[j].parameters = parameters.value
  /\ \A i \in 1..Len(redCalls.list) :
       Cardinality({j \in DOMAIN reduced : reduced[j].call = i}) <= 1

\* a handler threw, a reducer threw, both invocations ended rejected, and
\* each was invoked once for the failed call
C19_Witness ==
  /\ hpc = "done"
  /\ rpc = "done"
  /\ \E i \in DOMAIN promises : outcomes[i].how = "threw"
  /\ Len(invoked) = Len(toolCalls.list)
  /\ ReducerThrew
  /\ result.state = "rejected"
  /\ redResult.state = "rejected"

\* the reducer threw at the i-th tool call
ThrewAt(i) == \E j \in DOMAIN reduced : reduced[j].call = i /\ reduced[j].outcome.how = "threw"

ThrownAt(i) ==
  reduced[CHOOSE j \in DOMAIN reduced :
            reduced[j].call = i /\ reduced[j].outcome.how = "threw"].outcome.cause

\* what reduceToolCalls gives from the i-th tool call and the state st on when
\* nothing but its own arguments is there, the reducer throwing where it threw
RECURSIVE ReduceAlone(_, _)
ReduceAlone(i, st) ==
  IF i > Len(redCalls.list) THEN Fulfilled(st)
  ELSE LET call == redCalls.list[i] IN
       IF Matches(call.name, functionReducer.functions) = {}
       THEN Rejected(HttpError("InvalidFunctionName", <<"Function not found: ", call.name>>,
                               500, Undefined))
       ELSE LET parameters == parseArguments(call.name, call.arguments,
                                FindByName(call.name, functionReducer.functions).schema)
            IN  IF ~parameters.ok THEN Rejected(parameters.error)
                ELSE IF ThrewAt(i)
                THEN Rejected(HttpError("FunctionReducerError",
                                        <<"Error calling reducer ", call.name, ": ",
                                          IF ThrownAt(i).isError THEN ThrownAt(i).message
                                          ELSE "Unknown error">>,
                                        500, Undefined))
                ELSE ReduceAlone(i + 1, ApplyReducer(functionReducer.reducer, st, call.name,
                                                     parameters.value))

\* what the promise of the i-th tool call of handleToolCalls is when nothing
\* but its own arguments is there, the handler doing what it did
PromiseAlone(i) ==
  LET call == toolCalls.list[i] IN
  IF Matches(call.name, handlers) = {}
  THEN Rejected(HttpError("InvalidFunctionName", <<"Function not found: ", call.name>>,
                          500, Undefined))
  ELSE LET parameters == parseArguments(call.name, call.arguments,
                                        FindByName(call.name, handlers).schema)
       IN  IF ~parameters.ok THEN Rejected(parameters.error)
           ELSE IF outcomes[i].how = "returned" THEN Fulfilled(outcomes[i].output)
           ELSE IF outcomes[i].how \in {"threw", "rejected"}
           THEN Rejected(HttpError("FunctionHandlerError",
                                   <<"Error calling function ", call.name, ": ",
                                     IF outcomes[i].cause.isError THEN outcomes[i].cause.message
                                     ELSE "Unknown error">>,
                                   500, Undefined))
           ELSE Pending

\* C20: a handleToolCalls and a reduceToolCalls in flight together do not
\* interfere: however their steps interleave, the result of each is what its
\* own arguments give when it runs alone, and what is kept of one invocation
\* holds nothing of the other.
C20_InvocationsDoNotInterfere ==
  /\ rpc = "done"
       => redResult = IF redCalls.defined THEN ReduceAlone(1, prevState)
                      ELSE Fulfilled(prevState)
  /\ \A j \in DOMAIN reduced :
       Matches(reduced[j].name, functionReducer.functions) # {}
  /\ \A i \in DOMAIN promises : promises[i] = PromiseAlone(i)
  /\ \A j \in DOMAIN invoked :
       \E k \in DOMAIN handlers : handlers[k].handler = invoked[j].handler
  /\ hpc = "done"
       => IF \A i \in DOMAIN promises : promises[i].state = "fulfilled"
          THEN result = Fulfilled([i \in DOMAIN promises |-> promises[i].value])
          ELSE \E i \in DOMAIN promises : result = promises[i]

\* both invocations ended, the steps of reduceToolCalls having run while
\* handleToolCalls was waiting for a handler; a name only the other invocation
\* knows was not found
C20_Witness ==
  /\ hpc = "done"
  /\ rpc = "done"
  /\ toolCalls.defined /\ toolCalls.list # <<>>
  /\ redCalls.defined /\ redCalls.list # <<>>
  /\ redCalls.list[1].name = "testFunction"
  /\ Matches("testFunction", functionReducer.functions) = {}
  /\ Matches("testFunction", handlers) # {}
  /\ redResult.state = "rejected"
  /\ redResult.error.kind = "InvalidFunctionName"
  /\ result.state = "fulfilled"
  /\ \E j \in DOMAIN logged :
       /\ logged[j].text = <<"Tool handler output: ", result.value[1]>>

----------------------------------------------------------------------------
(* Claims about the logger (SpecLogger) *)

\* the logger setLogger was called with last, defaultLogger when it never was
LastSetLogger == IF setLog = <<>> THEN "defaultLogger" ELSE setLog[Len(setLog)]

\* C21: the logger is replace-only: every call of logger.info, logger.log and
\* logger.error is given, with its level, to the logger setLogger was called
\* with last and to no logger set before it, and to the default logger when
\* setLogger was never called.
C21_DeliveredToLastSetLogger ==
  [][logged' # logged
       => LET new == SubSeq(logged', Len(logged) + 1, Len(logged')) IN
          \A l \in Loggers :
            delivered'[l] = IF l = LastSetLogger THEN delivered[l] \o new ELSE delivered[l]]_vars

\* loggerA was set and given a call, then loggerB was set and given the next
C21_Witness ==
  /\ setLog = <<"loggerA", "loggerB">>
  /\ Len(logged) = 2
  /\ delivered["loggerA"] = <<logged[1]>>
  /\ delivered["loggerB"] = <<logged[2]>>
  /\ delivered["defaultLogger"] = <<>>

----------------------------------------------------------------------------
(* Claims about toJsonSchema and toTool (SpecPure) *)

\* v has the name and description of the definition d and, as parameters,
\* exactly the type, properties and required of the JSON schema of d.schema
IsJsonSchemaOf(v, d) ==
  /\ DOMAIN v = {"name", "description", "parameters"}
  /\ v.name = d.name
  /\ v.description = d.description
  /\ DOMAIN v.parameters = {"type", "properties", "required"}
  /\ v.parameters.type = ZodToJsonSchema(d.schema).type
  /\ v.parameters.properties = ZodToJsonSchema(d.schema).properties
  /\ v.parameters.required = ZodToJsonSchema(d.schema).required
  /\ v.parameters.required.list = KeysFrom(d.schema.shape, 1)

\* C22: toTool(d) is {type: "function", function: toJsonSchema(d)}, and
\* toJsonSchema(d) has the name and description of d unchanged and a
\* parameters object of exactly the type, properties and required of the
\* JSON schema of d.schema, required in declaration order.
C22_ToolDescribesDefinition ==
  /\ (purePc = "done" /\ pureCall.fn = "toJsonSchema")
       => IsJsonSchemaOf(pureRet.value, pureCall.functionDef)
  /\ (purePc = "done" /\ pureCall.fn = "toTool")
       => /\ DOMAIN pureRet.value = {"type", "function"}
          /\ pureRet.value.type = "function"
          /\ IsJsonSchemaOf(pureRet.value.function, pureCall.functionDef)

\* toTool was applied to a definition whose schema declares two members
C22_Witness ==
  /\ purePc = "done"
  /\ pureCall.fn = "toTool"
  /\ pureRet.value.type = "function"
  /\ pureRet.value.function.parameters.required.list = <<"param1", "param2">>
  /\ pureRet.value.function.parameters.properties["param2"].type = "number"

----------------------------------------------------------------------------
(* Claims about the logging of parseArguments (SpecPure) *)

\* the member k of the object v violates the schema: it is missing or of
\* another type than declared
Violates(schema, v, k) ==
  \/ k \notin DOMAIN v.m
  \/ ZodTypeOf(v.m[k]) # schema.shape[k]

\* the text decodes to a value the schema rejects
FailsValidation(args, schema) ==
  /\ JsonParse(args).ok
  /\ LET v == JsonParse(args).v IN
     \/ v.t # "obj"
     \/ \E k \in DOMAIN schema.shape : Violates(schema, v, k)

LoggedErrors == {j \in DOMAIN logged : logged[j].level = "error"}

\* C23: when the schema rejects the decoded arguments, parseArguments makes
\* one message that names every violating member, gives it with the raw
\* argument text to logger.error exactly once, and throws the error with that
\* message; when parseArguments returns, logger.error was not called.
C23_ValidationFailureLoggedOnce ==
  ParseDone
    => /\ FailsValidation(pureCall.args, pureCall.schema)
            => /\ ~pureRet.ok
               /\ pureRet.error.kind = "InvalidFunctionArguments"
               /\ Cardinality(LoggedErrors) = 1
               /\ \A j \in LoggedErrors :
                    logged[j].text
                      = pureRet.error.message \o <<" (">> \o pureCall.args \o <<")">>
               /\ delivered[currentLogger] = logged
               /\ LET v == JsonParse(pureCall.args).v IN
                  v.t = "obj"
                    => \A k \in DOMAIN pureCall.schema.shape :
                         Violates(pureCall.schema, v, k)
                           => Within(<<" at ", Quote(k)>>, pureRet.error.message)
       /\ pureRet.ok => LoggedErrors = {}

\* two members violated the schema and one message was logged
C23_Witness ==
  /\ ParseDone
  /\ FailsValidation(pureCall.args, pureCall.schema)
  /\ JsonParse(pureCall.args).v.t = "obj"
  /\ Cardinality({k \in DOMAIN pureCall.schema.shape :
                    Violates(pureCall.schema, JsonParse(pureCall.args).v, k)}) = 2
  /\ Len(logged) = 1
  /\ logged[1].level = "error"

----------------------------------------------------------------------------
(* Claims about lists with several entries of one name (SpecFirstMatch) *)

\* the index of the first entry of the name in the list
FirstIndex(name, list) ==
  CHOOSE i \in 1..Len(list) :
    list[i].name = name /\ \A j \in 1..(i - 1) : list[j].name # name

\* C24: when a list has several entries of a name, findFunction and
\* findHandler return the first of them in list order, and handleToolCalls and
\* reduceToolCalls use the schema and the handler of that first entry.
C24_FirstMatchWins ==
  /\ (FindDone /\ \E i \in 1..Len(pureCall.list) : pureCall.list[i].name = pureCall.name)
       => /\ pureRet.ok
          /\ pureRet.value = pureCall.list[FirstIndex(pureCall.name, pureCall.list)]
  /\ \A j \in DOMAIN invoked :
       LET call == toolCalls.list[invoked[j].call]
           first == handlers[FirstIndex(call.name, handlers)]
           checked == SafeParse(first.schema, JsonParse(call.arguments).v)
       IN  /\ invoked[j].handler = first.handler
           /\ checked.success
           /\ invoked[j].parameters = checked.data
  /\ \A i \in DOMAIN promises :
       LET call == toolCalls.list[i]
           decoded == JsonParse(call.arguments)
       IN  (/\ \E k \in 1..Len(handlers) : handlers[k].name = call.name
            /\ decoded.ok
            /\ ~SafeParse(handlers[FirstIndex(call.name, handlers)].schema, decoded.v).success)
             => /\ promises[i].state = "rejected"
                /\ promises[i].error.kind = "InvalidFunctionArguments"
  /\ \A j \in DOMAIN reduced :
       LET call == redCalls.list[reduced[j].call]
           first == functionReducer.functions[FirstIndex(call.name, functionReducer.functions)]
           checked == SafeParse(first.schema, JsonParse(call.arguments).v)
       IN  checked.success /\ reduced[j].args = checked.data
  /\ (rpc = "done" /\ redCalls.defined /\ next <= Len(redCalls.list))
       => LET call == redCalls.list[next]
              decoded == JsonParse(call.arguments)
              fs == functionReducer.functions
          IN  (/\ \E k \in 1..Len(fs) : fs[k].name = call.name
               /\ decoded.ok
               /\ ~SafeParse(fs[FirstIndex(call.name, fs)].schema, decoded.v).success)
                => redResult.error.kind = "InvalidFunctionArguments"

\* the handler of the first of two entries of a name was invoked, with
\* arguments the schema of the second rejects
C24_Witness ==
  /\ hpc = "done"
  /\ Len(handlers) = 2
  /\ handlers[1].name = handlers[2].name
  /\ invoked # <<>>
  /\ invoked[1].handler = handlers[1].handler
  /\ invoked[1].handler # handlers[2].handler
  /\ ~SafeParse(handlers[2].schema,
                JsonParse(toolCalls.list[invoked[1].call].arguments).v).success

----------------------------------------------------------------------------
(* Claims about the calls of a batch (SpecHandle) *)

\* the i-th call has a name a handler has and arguments its schema accepts
GoodCall(i) ==
  LET call == toolCalls.list[i]
      decoded == JsonParse(call.arguments)
  IN  /\ \E k \in 1..Len(handlers) : handlers[k].name = call.name
      /\ decoded.ok
      /\ SafeParse(FindByName(call.name, handlers).schema, decoded.v).success

\* C25: every call of a batch is processed whatever the other calls do: a
\* call with a known name and valid arguments has its handler invoked exactly
\* once, the handlers are invoked in the order of the calls, also when
\* another call of the batch fails and the batch is rejected, and a handler
\* that was started is never cancelled: it runs until it returns or fails.
C25_EveryGoodCallInvoked ==
  hpc # "idle"
    => /\ \A i \in CallIds :
            GoodCall(i) <=> Cardinality({j \in DOMAIN invoked : invoked[j].call = i}) = 1
       /\ \A j, k \in DOMAIN invoked : j < k => invoked[j].call < invoked[k].call
       /\ \A i \in CallIds :
            WasInvoked(i)
              => /\ outcomes[i].how \in {"running", "returned", "threw", "rejected"}
                 /\ outcomes[i].how = "running" <=> promises[i].state = "pending"
                 /\ outcomes[i].how = "returned" <=> promises[i].state = "fulfilled"

\* the first call failed and the batch was rejected; the handler of the
\* second call was invoked all the same and returned its output
C25_Witness ==
  /\ hpc = "done"
  /\ result.state = "rejected"
  /\ Len(promises) = 2
  /\ ~GoodCall(1)
  /\ GoodCall(2)
  /\ WasInvoked(2)
  /\ outcomes[2].how = "returned"
  /\ promises[2].state = "fulfilled"

----------------------------------------------------------------------------
(* Claims about the error of a rejected batch (SpecBatch) *)

\* the calls that failed at name resolution or argument validation
FailedBeforeHandler ==
  {i \in CallIds : promises[i].state = "rejected" /\ outcomes[i].how = "none"}

\* the calls that failed before handleSingleToolCall reached an await: those
\* and the calls whose handler threw when it was invoked
FailedAtOnce ==
  {i \in CallIds : promises[i].state = "rejected" /\ outcomes[i].how \in {"none", "threw"}}

Earliest(S) == CHOOSE i \in S : \A j \in S : i <= j

\* the error of a rejected batch is the error of a failed call of the batch,
\* and of the one failed call when there is only one
ErrorOfFailedCall ==
  /\ \E i \in CallIds : promises[i] = Rejected(result.error)
  /\ \A i \in CallIds :
       {j \in CallIds : promises[j].state = "rejected"} = {i}
         => result.error = promises[i].error

\* C27 as stated: when handleToolCalls rejects, its error is the error of one
\* of the failed calls of the batch; of the one failed call when one call
\* failed; and of the earliest call that failed at name resolution or argument
\* validation when several calls failed there.
C27_EarliestNameOrArgumentError ==
  result.state = "rejected"
    => /\ ErrorOfFailedCall
       /\ Cardinality(FailedBeforeHandler) >= 2
            => result.error = promises[Earliest(FailedBeforeHandler)].error

\* C27 amended: when handleToolCalls rejects, its error is the error of one
\* of the failed calls of the batch; of the one failed call when one call
\* failed; and when calls failed at name resolution, at argument validation
\* or by a handler that threw when invoked, of the earliest of these calls,
\* whatever rejections of handlers follow.
C27_EarliestImmediateError ==
  result.state = "rejected"
    => /\ ErrorOfFailedCall
       /\ FailedAtOnce # {}
            => result.error = promises[Earliest(FailedAtOnce)].error

\* the handler of the first call threw when invoked, two later calls failed
\* at name resolution and argument validation, and the batch was rejected with
\* the error of the first call
C27_Witness ==
  /\ hpc = "done"
  /\ result.state = "rejected"
  /\ Len(promises) = 3
  /\ outcomes[1].how = "threw"
  /\ FailedBeforeHandler = {2, 3}
  /\ result.error.kind = "FunctionHandlerError"
  /\ promises[2].error.kind # promises[3].error.kind

----------------------------------------------------------------------------
(* Claims about the effect of logging (SpecObserved) *)

\* what parseArguments returns or throws, by its arguments alone
ParseAlone(name, args, schema) ==
  IF ~JsonParse(args).ok THEN [ok |-> FALSE, error |-> JsonSyntaxError]
  ELSE LET v == JsonParse(args).v IN
       IF FailsValidation(args, schema)
       THEN [ok |-> FALSE,
             error |-> HttpError("InvalidFunctionArguments",
                                 <<"Invalid ", name, " function args: ">>
                                 \o FromZodErrorMessage(SafeParse(schema, v).error),
                                 500, "OpenAI")]
       ELSE [ok |-> TRUE, value |-> JObj([k \in DOMAIN schema.shape |-> v.m[k]])]

\* the run is one of handleToolCalls, or one of reduceToolCalls
HandleRun == purePc = "off" /\ functionReducer = NoReducer

ReduceRun == functionReducer # NoReducer

\* the calls of the batch that are rejected with InvalidFunctionArguments
RejectedArguments ==
  {i \in CallIds : /\ promises[i].state = "rejected"
                   /\ promises[i].error.kind = "InvalidFunctionArguments"}

\* C26: logging is observability only: whichever logger is installed (none
\* that throws), what parseArguments, handleToolCalls and reduceToolCalls
\* return or raise is what their inputs alone give, and every failure that is
\* logged is raised as well: none is replaced by its log entry.
C26_LoggingIsObservabilityOnly ==
  /\ delivered[currentLogger] = logged
  /\ ParseDone
       => /\ [k \in DOMAIN pureRet \ {"logs"} |-> pureRet[k]]
               = ParseAlone(pureCall.name, pureCall.args, pureCall.schema)
          /\ LoggedErrors # {} => ~pureRet.ok
  /\ \A i \in CallIds : promises[i] = PromiseAlone(i)
  /\ (HandleRun /\ hpc # "idle")
       => Cardinality(LoggedErrors) = Cardinality(RejectedArguments)
  /\ hpc = "done"
       => /\ (\E i \in CallIds : promises[i].state = "rejected") => result.state = "rejected"
          /\ result.state = "rejected"
               => \E i \in CallIds : /\ promises[i].state = "rejected"
                                     /\ result.error = promises[i].error
          /\ result.state = "fulfilled"
               => result.value = [i \in CallIds |-> promises[i].value]
  /\ (rpc = "done" /\ redCalls.defined) => redResult = ReduceAlone(1, prevState)
  /\ (ReduceRun /\ LoggedErrors # {})
       => /\ rpc = "done"
          /\ redResult.state = "rejected"
          /\ redResult.error.kind = "InvalidFunctionArguments"

\* with a logger of the host installed, a call of a batch failed validation:
\* the logger was given the failure and the batch was rejected with it
C26_Witness ==
  /\ currentLogger \in CustomLoggers
  /\ hpc = "done"
  /\ RejectedArguments # {}
  /\ result.state = "rejected"
  /\ result.error.kind = "InvalidFunctionArguments"
  /\ \E j \in DOMAIN delivered[currentLogger] : delivered[currentLogger][j].level = "error"
  /\ delivered["defaultLogger"] = <<>>

====
